---- MODULE Spec2Model ----
(***************************************************************************)
(* Document comparison: the structured-document parser                     *)
(* (AdvancedDocumentParser), the comparison engine (AdvancedDiffEngine)    *)
(* and the statistics of the basic engine (DiffEngine).                    *)
(*                                                                         *)
(* A string is a sequence of one-character strings.  A JavaScript number   *)
(* is a record: [k |-> "fin", n, d] is the rational n/d (d > 0),           *)
(* [k |-> "nan"] is NaN and [k |-> "inf", n] is +Infinity (n = 1) or       *)
(* -Infinity (n = -1).                                                     *)
(***************************************************************************)
EXTENDS Integers, Sequences, FiniteSets, TLC

\* ------------------------------------------------------------------ bounds
\* Most lines of an uploaded text file.
MaxLines == 2
\* Most pages of an uploaded PDF file.
MaxPages == 2
\* Longest difference list handed to the basic engine's calculateStats.
MaxDiffs == 2

\* Longest difference list handed to generateSummary on its own.
MaxSummaryDiffs == 6
\* The longest string handed to calculateWordSimilarity on its own.
MaxWord == 3
\* The longest navigation history from which a difference is still selected.
MaxHistory == 2
\* The most processDocument calls in flight at a time.
MaxCalls == 2

\* ------------------------------------------------------------- characters
NL == "\n"
SP == " "

IsSpace(c) == c \in {SP, NL}

IsDigit(c) == c \in {"0", "1", "2", "3", "4", "5", "6", "7", "8", "9"}

\* String.prototype.toUpperCase on one character of the model's alphabet.
ToUpperChar(c) ==
  CASE c = "a" -> "A"
    [] c = "b" -> "B"
    [] c = "c" -> "C"
    [] c = "d" -> "D"
    [] OTHER -> c

ToUpperCase(s) == [i \in 1..Len(s) |-> ToUpperChar(s[i])]

\* Number of leading / trailing whitespace characters of s.
RECURSIVE LeadingSpaces(_)
LeadingSpaces(s) ==
  IF s = <<>> \/ ~IsSpace(Head(s)) THEN 0 ELSE 1 + LeadingSpaces(Tail(s))

RECURSIVE TrailingSpaces(_)
TrailingSpaces(s) ==
  IF s = <<>> \/ ~IsSpace(s[Len(s)]) THEN 0
  ELSE 1 + TrailingSpaces(SubSeq(s, 1, Len(s) - 1))

\* String.prototype.trim
Trim(s) ==
  IF LeadingSpaces(s) = Len(s) THEN <<>>
  ELSE SubSeq(s, LeadingSpaces(s) + 1, Len(s) - TrailingSpaces(s))

\* (value.match(/\n/g) || []).length
CountNewlines(s) == Cardinality({i \in 1..Len(s) : s[i] = NL})

\* String.prototype.split('\n'): "" splits into one empty string.
RECURSIVE SplitFrom(_, _, _, _)
SplitFrom(s, i, cur, acc) ==
  IF i > Len(s) THEN Append(acc, cur)
  ELSE IF s[i] = NL THEN SplitFrom(s, i + 1, <<>>, Append(acc, cur))
  ELSE SplitFrom(s, i + 1, Append(cur, s[i]), acc)

SplitNL(s) == SplitFrom(s, 1, <<>>, <<>>)

\* Array.prototype.join('\n'): an empty array joins to "".
RECURSIVE JoinNL(_)
JoinNL(parts) ==
  IF parts = <<>> THEN <<>>
  ELSE IF Len(parts) = 1 THEN parts[1]
  ELSE parts[1] \o <<NL>> \o JoinNL(Tail(parts))

\* Array.prototype.join(''): concatenation of the tokens.
RECURSIVE Concat(_)
Concat(parts) ==
  IF parts = <<>> THEN <<>> ELSE Head(parts) \o Concat(Tail(parts))

\* The decimal digits of a natural number, as `${n}` formats it.
RECURSIVE Digits(_)
Digits(n) ==
  LET d == <<"0", "1", "2", "3", "4", "5", "6", "7", "8", "9">>
  IN  IF n < 10 THEN <<d[n + 1]>> ELSE Digits(n \div 10) \o <<d[(n % 10) + 1]>>

Max(a, b) == IF a > b THEN a ELSE b

Min(a, b) == IF a < b THEN a ELSE b

\* Map.prototype.set: a later value for the same key replaces the earlier.
MapSet(m, key, v) ==
  [x \in (DOMAIN m) \cup {key} |-> IF x = key THEN v ELSE m[x]]

EmptyMap == [x \in {} |-> 0]

\* ----------------------------------------------------------------- parser
\* buildLineStructure: one DocumentLine per '\n'-separated piece, offsets
\* running from pageOffset, one offset left for every newline.
RECURSIVE BuildLines(_, _, _, _, _)
BuildLines(textLines, index, currentOffset, pageNumber, lines) ==
  IF index > Len(textLines) THEN lines
  ELSE LET lineContent == textLines[index]
       IN  BuildLines(textLines, index + 1,
                      currentOffset + Len(lineContent) + 1, pageNumber,
                      Append(lines,
                             [lineNumber |-> index,
                              content |-> lineContent,
                              startOffset |-> currentOffset,
                              endOffset |-> currentOffset + Len(lineContent),
                              pageNumber |-> pageNumber]))

\* The lines of a page with offsets that run from 0 on every page.
BuildLineStructureFromZero(content, pageNumber, pageOffset) ==
  BuildLines(SplitNL(content), 1, 0, pageNumber, <<>>)

BuildLineStructure(content, pageNumber, pageOffset) ==
  BuildLines(SplitNL(content), 1, pageOffset, pageNumber, <<>>)

\* The key of positionToOffset: `${page}-${line}-${column}`.
PositionKeyNoPage(position) ==
  Digits(position.line) \o <<"-">> \o Digits(position.column)

PositionKey(position) ==
  Digits(position.page) \o <<"-">> \o Digits(position.line) \o <<"-">>
    \o Digits(position.column)

\* The inner for loop of buildPositionIndex: offsets startOffset..endOffset
\* of one line, both ends included.
RECURSIVE IndexOffsets(_, _, _, _)
IndexOffsets(index, page, line, i) ==
  IF i > line.endOffset THEN index
  ELSE LET position == [page |-> page.pageNumber,
                        line |-> line.lineNumber,
                        column |-> i - line.startOffset + 1,
                        offset |-> i - line.startOffset,
                        absoluteOffset |-> i]
       IN  IndexOffsets(
             [index EXCEPT
                !.offsetToPosition = MapSet(@, i, position),
                !.positionToOffset = MapSet(@, PositionKey(position), i)],
             page, line, i + 1)

\* page.lines.forEach of buildPositionIndex.
RECURSIVE IndexLines(_, _, _)
IndexLines(index, page, l) ==
  IF l > Len(page.lines) THEN index
  ELSE LET line == page.lines[l]
       IN  IndexLines(
             IndexOffsets(
               [index EXCEPT !.lineIndex = MapSet(@, line.lineNumber, line)],
               page, line, line.startOffset),
             page, l + 1)

\* pages.forEach of buildPositionIndex.
RECURSIVE IndexPages(_, _, _)
IndexPages(index, pages, p) ==
  IF p > Len(pages) THEN index
  ELSE IndexPages(
         IndexLines(
           [index EXCEPT !.pageIndex = MapSet(@, pages[p].pageNumber, pages[p])],
           pages[p], 1),
         pages, p + 1)

BuildPositionIndex(pages) ==
  IndexPages([offsetToPosition |-> EmptyMap, positionToOffset |-> EmptyMap,
              lineIndex |-> EmptyMap, pageIndex |-> EmptyMap],
             pages, 1)

\* /^\d+\./.test(s): one or more digits, then a full stop.
NumberedPrefix(s) ==
  \E n \in 1..Len(s) :
    /\ n < Len(s)
    /\ \A i \in 1..n : IsDigit(s[i])
    /\ s[n + 1] = "."

\* line.indexOf(line.trim()) for a line that is not blank.
IndexOfTrimmed(line) == LeadingSpaces(line)

\* extractSections: a heading is a non-blank line that is its own upper
\* case or starts with a number and a full stop.
IsHeading(line) ==
  /\ Len(Trim(line)) > 0
  /\ (line = ToUpperCase(line) \/ NumberedPrefix(Trim(line)))

RECURSIVE SectionsOfLines(_, _, _, _)
SectionsOfLines(page, lines, index, sections) ==
  IF index > Len(lines) THEN sections
  ELSE LET line == lines[index]
       IN  SectionsOfLines(page, lines, index + 1,
             IF IsHeading(line)
             THEN Append(sections,
                    [id |-> <<"section-">> \o Digits(Len(sections) + 1),
                     title |-> Trim(line),
                     level |-> 1,
                     startPosition |->
                       [page |-> page.pageNumber, line |-> index, column |-> 1,
                        offset |-> 0,
                        absoluteOffset |-> page.renderOffset + IndexOfTrimmed(line)],
                     endPosition |->
                       [page |-> page.pageNumber, line |-> index,
                        column |-> Len(line), offset |-> Len(line) - 1,
                        absoluteOffset |-> page.renderOffset + Len(line)],
                     content |-> Trim(line)])
             ELSE sections)

RECURSIVE SectionsOfPages(_, _, _)
SectionsOfPages(pages, p, sections) ==
  IF p > Len(pages) THEN sections
  ELSE SectionsOfPages(pages, p + 1,
         SectionsOfLines(pages[p], SplitNL(pages[p].content), 1, sections))

ExtractSections(pages) == SectionsOfPages(pages, 1, <<>>)

\* parseTextDocument: the whole file is page 1.  The file's id, name, type,
\* size and metadata are not read by the engine and are left out.
ParseTextDocument(content) ==
  LET lines == BuildLineStructure(content, 1, 0)
      page == [pageNumber |-> 1, content |-> content, lines |-> lines,
               renderOffset |-> 0]
  IN  [pageCount |-> 1,
       lineCount |-> Len(lines),
       characterCount |-> Len(content),
       pages |-> <<page>>,
       sections |-> ExtractSections(<<page>>),
       positionIndex |-> BuildPositionIndex(<<page>>)]

\* parseWordDocument: the raw text mammoth extracts is page 1.
ParseWordDocument(content) ==
  LET lines == BuildLineStructure(content, 1, 0)
      page == [pageNumber |-> 1, content |-> content, lines |-> lines,
               renderOffset |-> 0]
  IN  [pageCount |-> 1,
       lineCount |-> Len(lines),
       characterCount |-> Len(content),
       pages |-> <<page>>,
       sections |-> ExtractSections(<<page>>),
       positionIndex |-> BuildPositionIndex(<<page>>)]

\* The page loop of parsePDFDocument: pageTexts[pageNum] is the text of the
\* page's items joined by ' '; one offset is left for every page break.
RECURSIVE PdfPages(_, _, _, _)
PdfPages(pageTexts, pageNum, currentOffset, pages) ==
  IF pageNum > Len(pageTexts) THEN pages
  ELSE LET pageText == pageTexts[pageNum]
       IN  PdfPages(pageTexts, pageNum + 1, currentOffset + Len(pageText) + 1,
                    Append(pages,
                           [pageNumber |-> pageNum,
                            content |-> pageText,
                            lines |-> BuildLineStructure(pageText, pageNum, currentOffset),
                            renderOffset |-> currentOffset]))

RECURSIVE SumLen(_)
SumLen(seqs) == IF seqs = <<>> THEN 0 ELSE Len(Head(seqs)) + SumLen(Tail(seqs))

RECURSIVE SumLines(_)
SumLines(pages) ==
  IF pages = <<>> THEN 0 ELSE Len(Head(pages).lines) + SumLines(Tail(pages))

ParsePDFDocument(pageTexts) ==
  LET pages == PdfPages(pageTexts, 1, 0, <<>>)
  IN  [pageCount |-> Len(pageTexts),
       lineCount |-> SumLines(pages),
       characterCount |-> SumLen(pageTexts),
       pages |-> pages,
       sections |-> ExtractSections(pages),
       positionIndex |-> BuildPositionIndex(pages)]

\* --------------------------------------------------- the 'diff' package
\* diffLines and diffWords are imported from the package 'diff'; the model
\* follows the package's base differ (a breadth-first search over edit
\* lengths that keeps the best path of every diagonal) and its line and word
\* tokenizers.

\* lineDiff.tokenize: every line keeps its line break; a last line without
\* a line break is a token of its own; there are no empty tokens.
RECURSIVE LineTokensFrom(_, _, _, _)
LineTokensFrom(s, i, cur, acc) ==
  IF i > Len(s) THEN (IF cur = <<>> THEN acc ELSE Append(acc, cur))
  ELSE IF s[i] = NL THEN LineTokensFrom(s, i + 1, <<>>, Append(acc, Append(cur, NL)))
  ELSE LineTokensFrom(s, i + 1, Append(cur, s[i]), acc)

LineTokens(value) == LineTokensFrom(value, 1, <<>>, <<>>)

\* The character classes wordDiff.tokenize splits on: a line break is a
\* token by itself, other whitespace groups into runs, and \b separates
\* runs of word characters from runs of other characters.
CharClass(c) ==
  CASE c = NL -> "nl"
    [] c = SP -> "sp"
    [] c \in {"A", "B", "C", "D", "a", "b", "c", "d"} \/ IsDigit(c) -> "word"
    [] OTHER -> "other"

RECURSIVE WordTokensFrom(_, _, _, _)
WordTokensFrom(s, i, cur, acc) ==
  IF i > Len(s) THEN (IF cur = <<>> THEN acc ELSE Append(acc, cur))
  ELSE IF cur # <<>> /\ CharClass(s[i]) # "nl" /\ CharClass(s[i]) = CharClass(cur[1])
       THEN WordTokensFrom(s, i + 1, Append(cur, s[i]), acc)
       ELSE WordTokensFrom(s, i + 1, <<s[i]>>,
                           IF cur = <<>> THEN acc ELSE Append(acc, cur))

WordTokens(value) == WordTokensFrom(value, 1, <<>>, <<>>)

\* !reWhitespace.test(token): the token has no character that is not
\* whitespace.
AllSpace(token) == \A i \in 1..Len(token) : IsSpace(token[i])

\* equals: identity, or with ignoreWhitespace (diffWords) two tokens of
\* whitespace only.
TokenEquals(left, right, ignoreWhitespace) ==
  \/ left = right
  \/ (ignoreWhitespace /\ AllSpace(left) /\ AllSpace(right))

\* pushComponent: a repeated kind of edit extends the last component.
PushComponent(components, added, removed) ==
  LET n == Len(components)
  IN  IF n > 0 /\ components[n].added = added /\ components[n].removed = removed
      THEN [components EXCEPT ![n].count = @ + 1]
      ELSE Append(components, [count |-> 1, added |-> added, removed |-> removed])

\* The while loop of extractCommon: how many tokens after newPos and oldPos
\* (0-based, the last consumed token) are equal on both sides.
RECURSIVE CommonCount(_, _, _, _, _)
CommonCount(newString, oldString, newPos, oldPos, ignoreWhitespace) ==
  IF /\ newPos + 1 < Len(newString)
     /\ oldPos + 1 < Len(oldString)
     /\ TokenEquals(newString[newPos + 2], oldString[oldPos + 2], ignoreWhitespace)
  THEN 1 + CommonCount(newString, oldString, newPos + 1, oldPos + 1, ignoreWhitespace)
  ELSE 0

\* extractCommon: follow the diagonal; oldPos is newPos - diagonalPath.
ExtractCommon(basePath, newString, oldString, diagonalPath, ignoreWhitespace) ==
  LET commonCount == CommonCount(newString, oldString, basePath.newPos,
                                 basePath.newPos - diagonalPath, ignoreWhitespace)
  IN  [ok |-> TRUE,
       newPos |-> basePath.newPos + commonCount,
       components |->
         IF commonCount > 0
         THEN Append(basePath.components,
                     [count |-> commonCount, added |-> FALSE, removed |-> FALSE])
         ELSE basePath.components]

\* An entry of bestPath: a path (ok) with the 0-based position of its last
\* token on the new side and its components, or undefined (not ok).
Path(ok, newPos, components) ==
  [ok |-> ok, newPos |-> newPos, components |-> components]

\* The for loop of execEditLength over the diagonals of one edit length.
RECURSIVE ExecDiagonals(_, _, _, _, _, _)
ExecDiagonals(bestPath, editLength, diagonalPath, newString, oldString, ignoreWhitespace) ==
  IF diagonalPath > editLength
  THEN [done |-> FALSE, bestPath |-> bestPath, components |-> <<>>]
  ELSE
    LET addPath == bestPath[diagonalPath - 1]
        removePath == bestPath[diagonalPath + 1]
        oldPos == (IF removePath.ok THEN removePath.newPos ELSE 0) - diagonalPath
        cleared == IF addPath.ok THEN [bestPath EXCEPT ![diagonalPath - 1] = Path(FALSE, -1, <<>>)]
                   ELSE bestPath
        canAdd == addPath.ok /\ addPath.newPos + 1 < Len(newString)
        canRemove == removePath.ok /\ 0 <= oldPos /\ oldPos < Len(oldString)
    IN  IF ~canAdd /\ ~canRemove
        THEN ExecDiagonals([cleared EXCEPT ![diagonalPath] = Path(FALSE, -1, <<>>)], editLength,
                           diagonalPath + 2, newString, oldString, ignoreWhitespace)
        ELSE
          LET branched ==
                IF ~canAdd \/ (canRemove /\ addPath.newPos < removePath.newPos)
                THEN [removePath EXCEPT
                        !.components = PushComponent(@, FALSE, TRUE)]
                ELSE [addPath EXCEPT
                        !.newPos = @ + 1,
                        !.components = PushComponent(@, TRUE, FALSE)]
              basePath == ExtractCommon(branched, newString, oldString,
                                        diagonalPath, ignoreWhitespace)
          IN  IF /\ basePath.newPos + 1 >= Len(newString)
                 /\ (basePath.newPos - diagonalPath) + 1 >= Len(oldString)
              THEN [done |-> TRUE, bestPath |-> cleared,
                    components |-> basePath.components]
              ELSE ExecDiagonals([cleared EXCEPT ![diagonalPath] = basePath],
                                 editLength, diagonalPath + 2, newString, oldString,
                                 ignoreWhitespace)

\* while (editLength <= maxEditLength) execEditLength()
RECURSIVE ExecEditLengths(_, _, _, _, _)
ExecEditLengths(bestPath, editLength, newString, oldString, ignoreWhitespace) ==
  LET ret == ExecDiagonals(bestPath, editLength, -editLength, newString,
                           oldString, ignoreWhitespace)
  IN  IF ret.done \/ editLength >= Len(newString) + Len(oldString)
      THEN ret.components
      ELSE ExecEditLengths(ret.bestPath, editLength + 1, newString, oldString,
                           ignoreWhitespace)

\* buildValues: give every component its text (from the new side unless it
\* is a removal) and put a removal before the addition it follows.
RECURSIVE BuildValuesFrom(_, _, _, _, _, _, _)
BuildValuesFrom(components, componentPos, newPos, oldPos, newString, oldString, out) ==
  IF componentPos > Len(components) THEN out
  ELSE
    LET component == components[componentPos]
    IN  IF ~component.removed
        THEN BuildValuesFrom(components, componentPos + 1,
               newPos + component.count,
               IF component.added THEN oldPos ELSE oldPos + component.count,
               newString, oldString,
               Append(out,
                 [count |-> component.count, added |-> component.added,
                  removed |-> FALSE,
                  value |-> Concat(SubSeq(newString, newPos + 1,
                                          newPos + component.count))]))
        ELSE
          LET valued == [count |-> component.count, added |-> FALSE,
                         removed |-> TRUE,
                         value |-> Concat(SubSeq(oldString, oldPos + 1,
                                                 oldPos + component.count))]
              n == Len(out)
          IN  BuildValuesFrom(components, componentPos + 1, newPos,
                oldPos + component.count, newString, oldString,
                IF n > 0 /\ out[n].added
                THEN Append([out EXCEPT ![n] = valued], out[n])
                ELSE Append(out, valued))

\* The end of buildValues: a last change that equals the empty string (only
\* whitespace, under ignoreWhitespace) is merged into the part before it.
MergeTerminal(parts, ignoreWhitespace) ==
  LET n == Len(parts)
  IN  IF /\ n > 1
         /\ (parts[n].added \/ parts[n].removed)
         /\ TokenEquals(<<>>, parts[n].value, ignoreWhitespace)
      THEN [SubSeq(parts, 1, n - 1) EXCEPT ![n - 1].value = @ \o parts[n].value]
      ELSE parts

BuildValues(components, newString, oldString, ignoreWhitespace) ==
  MergeTerminal(BuildValuesFrom(components, 1, 0, 0, newString, oldString, <<>>),
                ignoreWhitespace)

\* The build of the package 'diff' the application is bundled with; the
\* builds differ in what they return for two inputs without any token.
VARIABLE diffBuild

\* diff(oldString, newString): the parts of the edit script.  When the
\* seed diagonal already reaches the end of both sides ("identity per the
\* equality and tokenizer") one build returns the single part
\* {value: join(newString)}, the other the values of the seed's components.
DiffTokens(oldString, newString, ignoreWhitespace) ==
  LET maxEditLength == Len(newString) + Len(oldString)
      seed == ExtractCommon(Path(TRUE, -1, <<>>),
                            newString, oldString, 0, ignoreWhitespace)
      bestPath == [d \in -(maxEditLength + 1)..(maxEditLength + 1) |->
                     IF d = 0 THEN seed ELSE Path(FALSE, -1, <<>>)]
  IN  IF seed.newPos + 1 >= Len(newString) /\ seed.newPos + 1 >= Len(oldString)
      THEN IF diffBuild = "identityPart"
           THEN <<[count |-> Len(newString), added |-> FALSE, removed |-> FALSE,
                   value |-> Concat(newString)]>>
           ELSE BuildValues(seed.components, newString, oldString, ignoreWhitespace)
      ELSE BuildValues(ExecEditLengths(bestPath, 1, newString, oldString,
                                       ignoreWhitespace),
                       newString, oldString, ignoreWhitespace)

DiffLines(oldStr, newStr) == DiffTokens(LineTokens(oldStr), LineTokens(newStr), FALSE)

DiffWords(oldStr, newStr) == DiffTokens(WordTokens(oldStr), WordTokens(newStr), TRUE)

\* ------------------------------------------------------ JavaScript numbers
Fin(n, d) == [k |-> "fin", n |-> n, d |-> d]

\* NaN (kind "nan") and the infinities (kind "inf", n the sign).
NotFinite(kind, sign) == [k |-> kind, n |-> sign, d |-> 1]

\* a / b for integers a and b >= 0.
Divide(a, b) ==
  IF b # 0 THEN Fin(a, b)
  ELSE IF a = 0 THEN NotFinite("nan", 0)
  ELSE NotFinite("inf", IF a > 0 THEN 1 ELSE -1)

\* Math.max(0, x): NaN if x is NaN.
MaxWithZero(x) ==
  CASE x.k = "nan" -> x
    [] x.k = "inf" -> (IF x.n > 0 THEN x ELSE Fin(0, 1))
    [] OTHER -> (IF x.n < 0 THEN Fin(0, 1) ELSE x)

\* x || 0: NaN and 0 are falsy.
OrZero(x) == IF x.k = "nan" \/ (x.k = "fin" /\ x.n = 0) THEN Fin(0, 1) ELSE x

\* x < n / d for a number x
LessThan(x, n, d) ==
  CASE x.k = "nan" -> FALSE
    [] x.k = "inf" -> x.n < 0
    [] OTHER -> x.n * d < n * x.d

\* --------------------------------------------------- AdvancedDiffEngine
ExtractFullContent(doc) ==
  JoinNL([i \in 1..Len(doc.pages) |-> doc.pages[i].content])

\* The end of a match of /\n\s*\n/ that starts at the line break s[i]: the
\* last line break of the whitespace run after s[i]; 0 when there is none.
SeparatorEnd(s, i) ==
  LET ends == {j \in (i + 1)..Len(s) :
                 s[j] = NL /\ \A m \in (i + 1)..j : IsSpace(s[m])}
  IN  IF ends = {} THEN 0 ELSE CHOOSE j \in ends : \A m \in ends : m <= j

\* fullContent.split(/\n\s*\n/)
RECURSIVE SplitParagraphsFrom(_, _, _, _)
SplitParagraphsFrom(s, i, cur, acc) ==
  IF i > Len(s) THEN Append(acc, cur)
  ELSE IF s[i] = NL /\ SeparatorEnd(s, i) # 0
  THEN SplitParagraphsFrom(s, SeparatorEnd(s, i) + 1, <<>>, Append(acc, cur))
  ELSE SplitParagraphsFrom(s, i + 1, Append(cur, s[i]), acc)

ExtractParagraphs(doc) ==
  SelectSeq(SplitParagraphsFrom(ExtractFullContent(doc), 1, <<>>, <<>>),
            LAMBDA para : Len(Trim(para)) > 0)

\* A DocumentPosition.
Position(page, line, column, offset, absoluteOffset) ==
  [page |-> page, line |-> line, column |-> column, offset |-> offset,
   absoluteOffset |-> absoluteOffset]

\* findPositionByLineIndex: the page whose lines cover the 0-based line
\* index; page 1, line 1 when no page does.
RECURSIVE FindPositionFrom(_, _, _, _)
FindPositionFrom(doc, lineIndex, p, currentLine) ==
  IF p > Len(doc.pages) THEN Position(1, 1, 1, 0, 0)
  ELSE LET page == doc.pages[p]
       IN  IF currentLine + Len(page.lines) > lineIndex
           THEN LET line == page.lines[(lineIndex - currentLine) + 1]
                IN  Position(page.pageNumber, line.lineNumber, 1, 0,
                             line.startOffset)
           ELSE FindPositionFrom(doc, lineIndex, p + 1, currentLine + Len(page.lines))

FindPositionByLineIndex(doc, lineIndex) == FindPositionFrom(doc, lineIndex, 1, 0)

FindPositionByContent(doc, content, paragraphIndex) ==
  Position(1, paragraphIndex + 1, 1, 0, 0)

GetContextBefore(doc, position) == <<>>

GetContextAfter(doc, position) == <<>>

\* String.prototype.substring(start, end): arguments are clamped to the
\* string and swapped when start > end.
Substring(text, start, end) ==
  LET a == Max(0, Min(start, Len(text)))
      b == Max(0, Min(end, Len(text)))
  IN  SubSeq(text, Min(a, b) + 1, Max(a, b))

GetWordContext(text, position, length) ==
  Substring(text,
            Max(0, position + (IF length < 0 THEN length ELSE 0)),
            Min(Len(text), position + (IF length > 0 THEN length ELSE 0)))

CalculateSeverity(content) ==
  LET length == Len(Trim(content))
      lineCount == CountNewlines(content)
  IN  IF lineCount > 10 \/ length > 500 THEN "critical"
      ELSE IF lineCount > 5 \/ length > 200 THEN "high"
      ELSE IF lineCount > 1 \/ length > 50 THEN "medium"
      ELSE "low"

CalculateWordSeverity(word) == IF Len(word) > 20 THEN "medium" ELSE "low"

\* One row of the matrix of levenshteinDistance: row i from row i - 1.
RECURSIVE LevenshteinRow(_, _, _, _, _)
LevenshteinRow(str1, c, previous, j, row) ==
  IF j > Len(str1) THEN row
  ELSE LevenshteinRow(str1, c, previous, j + 1,
         Append(row,
                IF c = str1[j] THEN previous[j]
                ELSE Min(previous[j] + 1, Min(row[j] + 1, previous[j + 1] + 1))))

\* Rows 1..Len(str2) of the matrix; a row is indexed by j + 1.
RECURSIVE LevenshteinRows(_, _, _, _)
LevenshteinRows(str1, str2, i, previous) ==
  IF i > Len(str2) THEN previous
  ELSE LevenshteinRows(str1, str2, i + 1,
                       LevenshteinRow(str1, str2[i], previous, 1, <<i>>))

\* The number of positions at which the two strings differ, a position
\* beyond the end of the shorter one included.
PositionalDistance(str1, str2) ==
  Cardinality({j \in 1..Max(Len(str1), Len(str2)) :
                 j > Len(str1) \/ j > Len(str2) \/ str1[j] # str2[j]})

LevenshteinDistance(str1, str2) ==
  LevenshteinRows(str1, str2, 1, [j \in 1..(Len(str1) + 1) |-> j - 1])[Len(str1) + 1]

\* The length of the shorter string over the length of the longer one.
LengthRatio(left, right) ==
  IF Max(Len(left), Len(right)) = 0 THEN Fin(1, 1)
  ELSE Fin(Min(Len(left), Len(right)), Max(Len(left), Len(right)))

CalculateWordSimilarity(left, right) ==
  LET longer == IF Len(left) > Len(right) THEN left ELSE right
      shorter == IF Len(left) > Len(right) THEN right ELSE left
  IN  IF Len(longer) = 0 THEN Fin(1, 1)
      ELSE Fin(Len(longer) - LevenshteinDistance(longer, shorter), Len(longer))

\* description: `<label>: ${part.value.substring(0, 50)}...`.  The labels of
\* the source are Chinese words; the model writes them in English.
LineDescription(label, value) == <<label>> \o Substring(value, 0, 50) \o <<"...">>

\* lineDiffs.forEach of detectLineDifferences.  An unchanged part calls
\* this.detectWordLevelChanges, which the class does not define: the call
\* raises a TypeError and the differ ends there.
RECURSIVE LinePartsFrom(_, _, _, _, _, _, _, _)
LinePartsFrom(lineDiffs, k, leftDoc0, rightDoc0, leftLineIndex, rightLineIndex, diffIndex, differences) ==
  IF k > Len(lineDiffs) THEN [raised |-> FALSE, differences |-> differences]
  ELSE
    LET part == lineDiffs[k]
    IN  IF part.added
        THEN LET rightPosition == FindPositionByLineIndex(rightDoc0, rightLineIndex)
             IN  LinePartsFrom(lineDiffs, k + 1, leftDoc0, rightDoc0, leftLineIndex,
                   rightLineIndex + CountNewlines(part.value), diffIndex + 1,
                   Append(differences,
                     [id |-> <<"line-add-">> \o Digits(diffIndex),
                      type |-> "addition",
                      severity |-> CalculateSeverity(part.value),
                      category |-> "text",
                      description |-> LineDescription("added content: ", part.value),
                      leftContent |-> <<>>,
                      rightContent |-> part.value,
                      leftPosition |-> rightPosition,
                      rightPosition |-> rightPosition,
                      contextBefore |-> GetContextBefore(rightDoc0, rightPosition),
                      contextAfter |-> GetContextAfter(rightDoc0, rightPosition),
                      similarity |-> Fin(0, 1),
                      confidence |-> Fin(9, 10)]))
        ELSE IF part.removed
        THEN LET leftPosition == FindPositionByLineIndex(leftDoc0, leftLineIndex)
             IN  LinePartsFrom(lineDiffs, k + 1, leftDoc0, rightDoc0,
                   leftLineIndex + CountNewlines(part.value), rightLineIndex,
                   diffIndex + 1,
                   Append(differences,
                     [id |-> <<"line-del-">> \o Digits(diffIndex),
                      type |-> "deletion",
                      severity |-> CalculateSeverity(part.value),
                      category |-> "text",
                      description |-> LineDescription("removed content: ", part.value),
                      leftContent |-> part.value,
                      rightContent |-> <<>>,
                      leftPosition |-> leftPosition,
                      rightPosition |-> leftPosition,
                      contextBefore |-> GetContextBefore(leftDoc0, leftPosition),
                      contextAfter |-> GetContextAfter(leftDoc0, leftPosition),
                      similarity |-> Fin(0, 1),
                      confidence |-> Fin(9, 10)]))
        ELSE [raised |-> TRUE, differences |-> differences]

DetectLineDifferences(leftDoc0, rightDoc0) ==
  LinePartsFrom(DiffLines(ExtractFullContent(leftDoc0), ExtractFullContent(rightDoc0)),
                1, leftDoc0, rightDoc0, 0, 0, 0, <<>>)

\* An id made of the kind and the paragraph index only.
WordIdNoIndex(added, i, index) ==
  <<"word-", IF added THEN "add" ELSE "del", "-">> \o Digits(i)

\* id: `word-${part.added ? 'add' : 'del'}-${i}-${index}`
WordId(added, i, index) ==
  <<"word-", IF added THEN "add" ELSE "del", "-">>
    \o Digits(i) \o <<"-">> \o Digits(index)

\* wordDiffs.forEach of detectWordDifferences for paragraph index i
\* (0-based); index is the 0-based index of the part.
RECURSIVE WordPartsFrom(_, _, _, _, _, _, _, _, _)
WordPartsFrom(wordDiffs, index, i, leftDoc0, rightDoc0, leftPara, rightPara, wordIndex, differences) ==
  IF index >= Len(wordDiffs) THEN differences
  ELSE
    LET part == wordDiffs[index + 1]
        position == FindPositionByContent(IF part.added THEN rightDoc0 ELSE leftDoc0,
                                          part.value, i)
    IN  WordPartsFrom(wordDiffs, index + 1, i, leftDoc0, rightDoc0, leftPara,
          rightPara, wordIndex + Len(part.value),
          IF part.added \/ part.removed
          THEN Append(differences,
                 [id |-> WordId(part.added, i, index),
                  type |-> IF part.added THEN "addition" ELSE "deletion",
                  severity |-> CalculateWordSeverity(part.value),
                  category |-> "text",
                  description |->
                    <<IF part.added THEN "added" ELSE "removed", " word: ">> \o part.value,
                  leftContent |-> IF part.removed THEN part.value ELSE <<>>,
                  rightContent |-> IF part.added THEN part.value ELSE <<>>,
                  leftPosition |-> position,
                  rightPosition |-> position,
                  contextBefore |-> GetWordContext(leftPara, wordIndex, -10),
                  contextAfter |->
                    GetWordContext(leftPara, wordIndex + Len(part.value), 10),
                  similarity |-> CalculateWordSimilarity(leftPara, rightPara),
                  confidence |-> Fin(8, 10)])
          ELSE differences)

\* The for loop of detectWordDifferences over paragraph indexes.
RECURSIVE WordParagraphsFrom(_, _, _, _, _, _)
WordParagraphsFrom(leftDoc0, rightDoc0, leftParagraphs, rightParagraphs, i, differences) ==
  IF i >= Max(Len(leftParagraphs), Len(rightParagraphs)) THEN differences
  ELSE
    LET leftPara == IF i < Len(leftParagraphs) THEN leftParagraphs[i + 1] ELSE <<>>
        rightPara == IF i < Len(rightParagraphs) THEN rightParagraphs[i + 1] ELSE <<>>
    IN  WordParagraphsFrom(leftDoc0, rightDoc0, leftParagraphs, rightParagraphs,
          i + 1,
          IF leftPara # rightPara
          THEN WordPartsFrom(DiffWords(leftPara, rightPara), 0, i, leftDoc0,
                             rightDoc0, leftPara, rightPara, 0, differences)
          ELSE differences)

DetectWordDifferences(leftDoc0, rightDoc0) ==
  WordParagraphsFrom(leftDoc0, rightDoc0, ExtractParagraphs(leftDoc0),
                     ExtractParagraphs(rightDoc0), 0, <<>>)

\* The one character after the count in `${pageCount} <page>`.
PageSign == "p"

\* The page-count difference of detectStructuralDifferences.
PageCountDifference(leftDoc0, rightDoc0) ==
  [id |-> <<"struct-page-count">>,
   type |-> "structure",
   severity |-> "high",
   category |-> "structure",
   description |-> <<"page count changed: ">> \o Digits(leftDoc0.pageCount) \o <<" -> ">>
                     \o Digits(rightDoc0.pageCount),
   leftContent |-> Digits(leftDoc0.pageCount) \o <<SP, PageSign>>,
   rightContent |-> Digits(rightDoc0.pageCount) \o <<SP, PageSign>>,
   leftPosition |-> Position(1, 1, 1, 0, 0),
   rightPosition |-> Position(1, 1, 1, 0, 0),
   contextBefore |-> <<>>,
   contextAfter |-> <<>>,
   similarity |-> Fin(1, 2),
   confidence |-> Fin(10, 10)]

\* sectionDiffs.forEach of detectStructuralDifferences.
RECURSIVE SectionPartsFrom(_, _, _, _)
SectionPartsFrom(sectionDiffs, k, sectionIndex, differences) ==
  IF k > Len(sectionDiffs) THEN differences
  ELSE
    LET part == sectionDiffs[k]
    IN  IF part.added \/ part.removed
        THEN SectionPartsFrom(sectionDiffs, k + 1, sectionIndex + 1,
               Append(differences,
                 [id |-> <<"struct-section-">> \o Digits(sectionIndex),
                  type |-> IF part.added THEN "addition" ELSE "deletion",
                  severity |-> "medium",
                  category |-> "structure",
                  description |->
                    <<"section ", IF part.added THEN "added" ELSE "removed", ": ">>
                      \o part.value,
                  leftContent |-> IF part.removed THEN part.value ELSE <<>>,
                  rightContent |-> IF part.added THEN part.value ELSE <<>>,
                  leftPosition |-> Position(1, 1, 1, 0, 0),
                  rightPosition |-> Position(1, 1, 1, 0, 0),
                  contextBefore |-> <<>>,
                  contextAfter |-> <<>>,
                  similarity |-> Fin(0, 1),
                  confidence |-> Fin(9, 10)]))
        ELSE SectionPartsFrom(sectionDiffs, k + 1, sectionIndex, differences)

SectionTitles(doc) == [i \in 1..Len(doc.sections) |-> doc.sections[i].title]

DetectStructuralDifferences(leftDoc0, rightDoc0) ==
  SectionPartsFrom(
    DiffLines(JoinNL(SectionTitles(leftDoc0)), JoinNL(SectionTitles(rightDoc0))),
    1, 0,
    IF leftDoc0.pageCount # rightDoc0.pageCount
    THEN <<PageCountDifference(leftDoc0, rightDoc0)>>
    ELSE <<>>)

\* A first-occurrence test that looks at leftContent only.
FirstOccurrenceByLeft(differences, index) ==
  \A m \in 1..(index - 1) :
    differences[m].leftContent # differences[index].leftContent

\* array.findIndex(d => same leftContent and rightContent) === index
FirstOccurrence(differences, index) ==
  \A m \in 1..(index - 1) :
    ~(/\ differences[m].leftContent = differences[index].leftContent
      /\ differences[m].rightContent = differences[index].rightContent)

RECURSIVE UniqueFrom(_, _, _)
UniqueFrom(differences, index, kept) ==
  IF index > Len(differences) THEN kept
  ELSE UniqueFrom(differences, index + 1,
                  IF FirstOccurrence(differences, index)
                  THEN Append(kept, differences[index]) ELSE kept)

\* A comparator that looks at the page only.
ComparePages(a, b) == a.leftPosition.page - b.leftPosition.page

\* The comparator of the sort: negative when a goes before b.
ComparePositions(a, b) ==
  IF a.leftPosition.page # b.leftPosition.page
  THEN a.leftPosition.page - b.leftPosition.page
  ELSE IF a.leftPosition.line # b.leftPosition.line
  THEN a.leftPosition.line - b.leftPosition.line
  ELSE a.leftPosition.column - b.leftPosition.column

\* Array.prototype.sort is stable: an element goes after every element
\* that does not compare greater than it.
RECURSIVE InsertSorted(_, _)
InsertSorted(sorted, d) ==
  IF sorted = <<>> THEN <<d>>
  ELSE IF ComparePositions(sorted[Len(sorted)], d) <= 0 THEN Append(sorted, d)
  ELSE Append(InsertSorted(SubSeq(sorted, 1, Len(sorted) - 1), d),
              sorted[Len(sorted)])

RECURSIVE SortFrom(_, _, _)
SortFrom(differences, index, sorted) ==
  IF index > Len(differences) THEN sorted
  ELSE SortFrom(differences, index + 1, InsertSorted(sorted, differences[index]))

OptimizeDifferences(differences) ==
  SortFrom(UniqueFrom(differences, 1, <<>>), 1, <<>>)

\* Number of entries of values equal to value.
CountWhere(values, value) ==
  Cardinality({i \in 1..Len(values) : values[i] = value})

RECURSIVE ChangedChars(_)
ChangedChars(differences) ==
  IF differences = <<>> THEN 0
  ELSE Max(Len(Head(differences).leftContent), Len(Head(differences).rightContent))
         + ChangedChars(Tail(differences))

\* Sum of the confidences, in tenths (every confidence is n / 10).
RECURSIVE ConfidenceTenths(_)
ConfidenceTenths(differences) ==
  IF differences = <<>> THEN 0
  ELSE Head(differences).confidence.n + ConfidenceTenths(Tail(differences))

TypesOf(differences) == [i \in 1..Len(differences) |-> differences[i].type]

CategoriesOf(differences) == [i \in 1..Len(differences) |-> differences[i].category]

SeveritiesOf(differences) == [i \in 1..Len(differences) |-> differences[i].severity]

PagesOf(differences) == [i \in 1..Len(differences) |-> differences[i].leftPosition.page]

\* totalDifferences counting the text differences only.
TotalTextDifferences(differences) == CountWhere(CategoriesOf(differences), "text")

\* totalDifferences: differences.length
TotalDifferences(differences) == Len(differences)

\* calculateStatistics.  The quotients are exact here; the source computes
\* them in floating point.
CalculateStatistics(differences, leftDoc0, rightDoc0) ==
  LET totalChars == Max(leftDoc0.characterCount, rightDoc0.characterCount)
      changedChars == ChangedChars(differences)
  IN  [totalDifferences |-> TotalDifferences(differences),
       additions |-> CountWhere(TypesOf(differences), "addition"),
       deletions |-> CountWhere(TypesOf(differences), "deletion"),
       modifications |-> CountWhere(TypesOf(differences), "modification"),
       formatChanges |-> CountWhere(CategoriesOf(differences), "format"),
       structureChanges |-> CountWhere(CategoriesOf(differences), "structure"),
       critical |-> CountWhere(SeveritiesOf(differences), "critical"),
       high |-> CountWhere(SeveritiesOf(differences), "high"),
       medium |-> CountWhere(SeveritiesOf(differences), "medium"),
       low |-> CountWhere(SeveritiesOf(differences), "low"),
       pageDistribution |->
         [page \in {PagesOf(differences)[i] : i \in 1..Len(differences)} |->
            CountWhere(PagesOf(differences), page)],
       overallSimilarity |->
         MaxWithZero(Divide(totalChars - changedChars, totalChars)),
       averageConfidence |->
         OrZero(Divide(ConfidenceTenths(differences), 10 * Len(differences)))]

Descriptions(differences) == [i \in 1..Len(differences) |-> differences[i].description]

\* Number of descriptions generateSummary lists as major changes.
MajorChangesLimit == 5

GenerateSummary(differences, statistics) ==
  LET major == SelectSeq(differences,
                         LAMBDA d : d.severity = "high" \/ d.severity = "critical")
  IN  [majorChanges |->
         Descriptions(SubSeq(major, 1, Min(MajorChangesLimit, Len(major)))),
       structuralChanges |->
         Descriptions(SelectSeq(differences, LAMBDA d : d.category = "structure")),
       formatChanges |->
         Descriptions(SelectSeq(differences, LAMBDA d : d.category = "format")),
       recommendations |->
         (IF LessThan(statistics.overallSimilarity, 1, 2)
          THEN <<"large difference">> ELSE <<>>)
         \o (IF statistics.structureChanges > 0
             THEN <<"structural change">> ELSE <<>>)
         \o (IF statistics.critical > 0 THEN <<"critical difference">> ELSE <<>>)]

\* compareDocuments: the three differs in turn, the optimizer, the
\* statistics and the summary; the TypeError of the line differ leaves the
\* call without a result.
CompareDocuments(leftDoc0, rightDoc0) ==
  LET lineDifferences == DetectLineDifferences(leftDoc0, rightDoc0)
  IN  IF lineDifferences.raised
      THEN [raised |-> TRUE,
            error |-> [name |-> "TypeError",
                       message |-> "this.detectWordLevelChanges is not a function"]]
      ELSE
        LET optimizedDifferences ==
              OptimizeDifferences(
                lineDifferences.differences
                  \o DetectWordDifferences(leftDoc0, rightDoc0)
                  \o DetectStructuralDifferences(leftDoc0, rightDoc0))
            statistics == CalculateStatistics(optimizedDifferences, leftDoc0, rightDoc0)
        IN  [raised |-> FALSE,
             differences |-> optimizedDifferences,
             statistics |-> statistics,
             summary |-> GenerateSummary(optimizedDifferences, statistics)]

\* ------------------------------------------------------------ DiffEngine
\* calculateStats of the basic engine.
CalculateStats(differences) ==
  [totalDifferences |-> Len(differences),
   additions |-> CountWhere(TypesOf(differences), "addition"),
   deletions |-> CountWhere(TypesOf(differences), "deletion"),
   modifications |-> CountWhere(TypesOf(differences), "modification"),
   textChanges |-> CountWhere(CategoriesOf(differences), "text"),
   formatChanges |-> CountWhere(CategoriesOf(differences), "format"),
   structureChanges |-> CountWhere(CategoriesOf(differences), "structure")]

\* calculateSeverity of the basic engine.
BasicCalculateSeverity(content) ==
  LET length == Len(Trim(content))
      lineCount == CountNewlines(content)
  IN  IF lineCount > 5 \/ length > 100 THEN "high"
      ELSE IF lineCount > 1 \/ length > 20 THEN "medium"
      ELSE "low"

\* The backquote character, written as a word.
BQ == "backquote"

\* The formatting markers: an asterisk, an underscore, a square bracket, a
\* backquote or a hash sign.
IsFormatMarker(c) == c \in {"*", "_", "[", "]", BQ, "#"}

\* categorizeChange: two line breaks in a row or a line that begins with
\* white space (/^\s+/m) make a structural change, a formatting marker a
\* format change.
CategorizeChange(content) ==
  IF \/ \E i \in 1..(Len(content) - 1) : content[i] = NL /\ content[i + 1] = NL
     \/ \E i \in 1..Len(content) :
          IsSpace(content[i]) /\ (i = 1 \/ content[i - 1] = NL)
  THEN "structure"
  ELSE IF \E i \in 1..Len(content) : IsFormatMarker(content[i]) THEN "format"
  ELSE "text"

\* A position whatever the counters say: the start of the document.
BasicPositionAtStart(line, offset) == [line |-> 0, column |-> 0, offset |-> 0]

\* A Position of the basic engine.
BasicPosition(line, offset) == [line |-> line, column |-> 0, offset |-> offset]

\* A Difference of the basic engine.
BasicDifference(kind, diffIndex, type, leftLine, rightLine, leftOffset, rightOffset, leftContent0, rightContent0) ==
  [id |-> <<"diff-", kind, "-">> \o Digits(diffIndex),
   type |-> type,
   leftPosition |-> BasicPosition(leftLine, leftOffset),
   rightPosition |-> BasicPosition(rightLine, rightOffset),
   leftContent |-> leftContent0,
   rightContent |-> rightContent0,
   severity |-> BasicCalculateSeverity(leftContent0 \o rightContent0),
   category |-> CategorizeChange(leftContent0 \o rightContent0)]

\* wordDiffs.forEach of generateDifferences for one unchanged part.
RECURSIVE BasicModificationsFrom(_, _, _, _, _, _, _, _)
BasicModificationsFrom(wordDiffs, j, leftLine, rightLine, leftOffset, rightOffset, diffIndex, differences) ==
  IF j > Len(wordDiffs) THEN differences
  ELSE LET wordPart == wordDiffs[j]
       IN  IF wordPart.added \/ wordPart.removed
           THEN BasicModificationsFrom(wordDiffs, j + 1, leftLine, rightLine,
                  leftOffset, rightOffset, diffIndex + 1,
                  Append(differences,
                    BasicDifference("mod", diffIndex, "modification", leftLine,
                      rightLine, leftOffset, rightOffset,
                      IF wordPart.removed THEN wordPart.value ELSE <<>>,
                      IF wordPart.added THEN wordPart.value ELSE <<>>)))
           ELSE BasicModificationsFrom(wordDiffs, j + 1, leftLine, rightLine,
                  leftOffset, rightOffset, diffIndex, differences)

\* lineDiffs.forEach of generateDifferences.
RECURSIVE BasicPartsFrom(_, _, _, _, _, _, _, _)
BasicPartsFrom(lineDiffs, k, leftLine, rightLine, leftOffset, rightOffset, diffIndex, differences) ==
  IF k > Len(lineDiffs) THEN differences
  ELSE
    LET part == lineDiffs[k]
    IN  IF part.added
        THEN BasicPartsFrom(lineDiffs, k + 1, leftLine,
               rightLine + CountNewlines(part.value), leftOffset,
               rightOffset + Len(part.value), diffIndex + 1,
               Append(differences,
                 BasicDifference("add", diffIndex, "addition", leftLine, rightLine,
                                 leftOffset, rightOffset, <<>>, part.value)))
        ELSE IF part.removed
        THEN BasicPartsFrom(lineDiffs, k + 1,
               leftLine + CountNewlines(part.value), rightLine,
               leftOffset + Len(part.value), rightOffset, diffIndex + 1,
               Append(differences,
                 BasicDifference("del", diffIndex, "deletion", leftLine, rightLine,
                                 leftOffset, rightOffset, part.value, <<>>)))
        ELSE LET modified ==
                   BasicModificationsFrom(DiffWords(part.value, part.value), 1,
                     leftLine, rightLine, leftOffset, rightOffset, diffIndex,
                     differences)
             IN  BasicPartsFrom(lineDiffs, k + 1,
                   leftLine + CountNewlines(part.value),
                   rightLine + CountNewlines(part.value),
                   leftOffset + Len(part.value), rightOffset + Len(part.value),
                   diffIndex + Len(modified) - Len(differences), modified)

\* DiffEngine.generateDifferences
GenerateDifferences(leftContent0, rightContent0) ==
  IF leftContent0 = <<>> /\ rightContent0 = <<>> THEN <<>>
  ELSE BasicPartsFrom(DiffLines(leftContent0, rightContent0), 1, 0, 0, 0, 0, 0, <<>>)

\* ---------------------------------------------------------- state machine
\* leftDoc, rightDoc: the two DocumentStructures handed to the engine;
\* result: what compareDocuments answered; pc: "idle" before the comparison,
\* "returned" or "raised" after it, "queried" after a position query (result
\* is then the query and its answer), "summarized" after calculateStatistics
\* and generateSummary ran on a given difference list (result is then the
\* list, the statistics and the summary), "words" after detectWordDifferences
\* ran on the two documents, "optimized" after optimizeDifferences ran on
\* the differs' outputs in a given order, "measured" after
\* calculateWordSimilarity ran on two strings (result is then the strings
\* and the answer), "generated" after the basic engine's generateDifferences
\* and calculateStats ran on two contents (result is then the contents),
\* "basic" after the basic engine's calculateStats ran on a difference list;
\* basicDifferences, basicStats: the basic engine's differences and
\* statistics.
VARIABLES leftDoc, rightDoc, result, pc, basicDifferences, basicStats

\* The state of useAdvancedComparison next to leftDocument (leftDoc) and
\* rightDocument (rightDoc).
VARIABLES comparisonResult, isLoading, errors, viewportState, navigationState

\* The last invocation of the hook's compareDocuments: whether a document
\* was null, and the error and the result the invocation set.
VARIABLE compareCall

\* Whether the effect that calls compareDocuments after a change of the
\* documents has yet to run.
VARIABLE effectPending

\* The processDocument calls whose parse has not finished, in the order in
\* which they were started; lastCall: for each side the file of the call
\* started last and what became of the call.
VARIABLES inFlight, lastCall

hookVars ==
  <<comparisonResult, isLoading, errors, viewportState, navigationState,
    compareCall, effectPending, inFlight, lastCall>>

vars ==
  <<diffBuild, leftDoc, rightDoc, result, pc, basicDifferences, basicStats,
    comparisonResult, isLoading, errors, viewportState, navigationState,
    compareCall, effectPending, inFlight, lastCall>>

NoDoc == [absent |-> TRUE]

NoResult == [absent |-> TRUE]

\* The lines the uploaded text files are made of.
FileLines == {<<>>, <<"A">>, <<"a", SP, "b">>}

\* The sequences of 1..n elements of S.
RECURSIVE SeqsUpTo(_, _)
SeqsUpTo(S, n) ==
  IF n = 0 THEN {}
  ELSE {<<x>> : x \in S}
         \cup SeqsUpTo(S, n - 1)
         \cup {Append(q, x) : q \in SeqsUpTo(S, n - 1), x \in S}

\* The two texts of the line-3 scenario, a line that shares a word with a
\* line of FileLines, and a text of two paragraphs.
ScenarioTexts ==
  {<<"A", NL, "B", NL, "C">>, <<"A", NL, "B", NL, "D">>, <<"a", SP, "c">>,
   <<"a", SP, "c", NL, NL, "B">>}

TextContents == {JoinNL(ls) : ls \in SeqsUpTo(FileLines, MaxLines)} \cup ScenarioTexts

\* The texts of the pages of the uploaded PDF files.
PdfPageTexts == {<<>>, <<"A">>}

PdfContents == SeqsUpTo(PdfPageTexts, MaxPages)

DiffTypes == {"addition", "deletion", "modification"}

DiffCategories == {"text", "format", "structure"}

\* The (type, category) pairs of the difference lists handed to the basic
\* engine.
BasicDifferenceKinds == {<<>>} \cup SeqsUpTo(DiffTypes \X DiffCategories, MaxDiffs)

\* null in the place of an error message.
NoError == ""

\* null in the place of a difference id.
NoId == <<>>

InitialViewportState ==
  [leftScrollTop |-> 0, rightScrollTop |-> 0, leftVisibleRange |-> <<0, 0>>,
   rightVisibleRange |-> <<0, 0>>, selectedDifference |-> NoId,
   highlightedDifferences |-> <<>>, syncScrolling |-> TRUE, zoomLevel |-> 100]

InitialNavigationState ==
  [currentDifferenceIndex |-> -1, totalDifferences |-> 0,
   navigationHistory |-> <<>>, bookmarks |-> <<>>]

Init ==
  /\ diffBuild \in {"identityPart", "componentValues"}
  /\ leftDoc = NoDoc
  /\ rightDoc = NoDoc
  /\ result = NoResult
  /\ pc = "idle"
  /\ basicDifferences = <<>>
  /\ basicStats = NoResult
  /\ comparisonResult = NoResult
  /\ isLoading = [left |-> FALSE, right |-> FALSE, comparing |-> FALSE]
  /\ errors = [left |-> NoError, right |-> NoError, comparison |-> NoError]
  /\ viewportState = InitialViewportState
  /\ navigationState = InitialNavigationState
  /\ compareCall = [made |-> FALSE]
  /\ effectPending = FALSE
  /\ inFlight = <<>>
  /\ lastCall = [left |-> [outcome |-> "none"], right |-> [outcome |-> "none"]]

\* The document of one side is set, once.
SetDocument(side, document) ==
  /\ IF side = "left"
     THEN leftDoc = NoDoc /\ leftDoc' = document /\ UNCHANGED rightDoc
     ELSE rightDoc = NoDoc /\ rightDoc' = document /\ UNCHANGED leftDoc
  /\ UNCHANGED <<diffBuild, result, pc, basicDifferences, basicStats>>
  /\ UNCHANGED hookVars

\* parseDocument of a text/plain file (and of a file of any other type).
ParseText(side, content) ==
  /\ pc = "idle"
  /\ SetDocument(side, ParseTextDocument(content))

\* parseDocument of a Word file.
ParseWord(side, content) ==
  /\ pc = "idle"
  /\ SetDocument(side, ParseWordDocument(content))

\* parseDocument of a PDF file.
ParsePDF(side, pageTexts) ==
  /\ pc = "idle"
  /\ SetDocument(side, ParsePDFDocument(pageTexts))

\* AdvancedDiffEngine.compareDocuments on the two documents.
Compare ==
  /\ pc = "idle"
  /\ leftDoc # NoDoc
  /\ rightDoc # NoDoc
  /\ result' = CompareDocuments(leftDoc, rightDoc)
  /\ pc' = IF result'.raised THEN "raised" ELSE "returned"
  /\ UNCHANGED <<diffBuild, leftDoc, rightDoc, basicDifferences, basicStats>>
  /\ UNCHANGED hookVars

\* The 0-based line indexes asked of findPositionByLineIndex.
QueryIndexes == 0..(MaxLines + 1)

\* findPositionByLineIndex on the left document, before a right document
\* is there.
QueryPosition(lineIndex) ==
  /\ pc = "idle"
  /\ leftDoc # NoDoc
  /\ rightDoc = NoDoc
  /\ result' = [raised |-> FALSE,
                lineIndex |-> lineIndex,
                position |-> FindPositionByLineIndex(leftDoc, lineIndex)]
  /\ pc' = "queried"
  /\ UNCHANGED <<diffBuild, leftDoc, rightDoc, basicDifferences, basicStats>>
  /\ UNCHANGED hookVars

\* The (severity, category) pairs of the difference lists handed to
\* generateSummary.
SummaryKinds ==
  {<<"high", "text">>, <<"critical", "structure">>, <<"low", "format">>}

SummaryLists == {<<>>} \cup SeqsUpTo(SummaryKinds, MaxSummaryDiffs)

\* The optimized difference list with the given severities and categories:
\* difference i is at line i and has a description of its own.
SummaryDifferences(kinds) ==
  [i \in 1..Len(kinds) |->
     [id |-> <<"line-del-">> \o Digits(i - 1),
      type |-> "deletion",
      severity |-> kinds[i][1],
      category |-> kinds[i][2],
      description |-> LineDescription("removed content: ", Digits(i)),
      leftContent |-> Digits(i),
      rightContent |-> <<>>,
      leftPosition |-> Position(1, i, 1, 0, 0),
      rightPosition |-> Position(1, i, 1, 0, 0),
      contextBefore |-> <<>>,
      contextAfter |-> <<>>,
      similarity |-> Fin(0, 1),
      confidence |-> Fin(9, 10)]]

\* Lines 19-26 of compareDocuments on an optimized difference list:
\* calculateStatistics, generateSummary and the returned object.  Of the
\* two documents calculateStatistics reads characterCount only.
Summarize(kinds) ==
  /\ pc = "idle"
  /\ leftDoc = NoDoc
  /\ rightDoc = NoDoc
  /\ result' =
       LET differences == SummaryDifferences(kinds)
           document == [characterCount |-> 2 * MaxSummaryDiffs]
           statistics == CalculateStatistics(differences, document, document)
       IN  [raised |-> FALSE,
            differences |-> differences,
            statistics |-> statistics,
            summary |-> GenerateSummary(differences, statistics)]
  /\ pc' = "summarized"
  /\ UNCHANGED <<diffBuild, leftDoc, rightDoc, basicDifferences, basicStats>>
  /\ UNCHANGED hookVars

\* detectWordDifferences on the two documents.
DetectWords ==
  /\ pc = "idle"
  /\ leftDoc # NoDoc
  /\ rightDoc # NoDoc
  /\ result' = [raised |-> FALSE,
                differences |-> DetectWordDifferences(leftDoc, rightDoc)]
  /\ pc' = "words"
  /\ UNCHANGED <<diffBuild, leftDoc, rightDoc, basicDifferences, basicStats>>
  /\ UNCHANGED hookVars

\* The orders in which the outputs of the three differs can be handed to
\* optimizeDifferences.
CompletionOrders ==
  {order \in [1..3 -> {"line", "word", "structure"}] :
     \A i \in 1..3, j \in 1..3 : i # j => order[i] # order[j]}

\* The output of one differ on the two documents.
DifferOutput(differ, leftDoc0, rightDoc0) ==
  CASE differ = "line" -> DetectLineDifferences(leftDoc0, rightDoc0).differences
    [] differ = "word" -> DetectWordDifferences(leftDoc0, rightDoc0)
    [] OTHER -> DetectStructuralDifferences(leftDoc0, rightDoc0)

\* Lines 13-16 of compareDocuments once the three differs have returned:
\* their outputs are pushed whole, in the given order, and
\* optimizeDifferences runs on the list.
OptimizeInOrder(order) ==
  /\ pc = "idle"
  /\ leftDoc # NoDoc
  /\ rightDoc # NoDoc
  /\ ~DetectLineDifferences(leftDoc, rightDoc).raised
  /\ result' = [raised |-> FALSE,
                order |-> order,
                differences |->
                  OptimizeDifferences(
                    DifferOutput(order[1], leftDoc, rightDoc)
                      \o DifferOutput(order[2], leftDoc, rightDoc)
                      \o DifferOutput(order[3], leftDoc, rightDoc))]
  /\ pc' = "optimized"
  /\ UNCHANGED <<diffBuild, leftDoc, rightDoc, basicDifferences, basicStats>>
  /\ UNCHANGED hookVars

\* The strings handed to calculateWordSimilarity.
SimilarityStrings == {<<>>} \cup SeqsUpTo({"a", "b"}, MaxWord)

\* calculateWordSimilarity on two strings.
MeasureSimilarity(left, right) ==
  /\ pc = "idle"
  /\ leftDoc = NoDoc
  /\ rightDoc = NoDoc
  /\ result' = [raised |-> FALSE,
                left |-> left,
                right |-> right,
                similarity |-> CalculateWordSimilarity(left, right)]
  /\ pc' = "measured"
  /\ UNCHANGED <<diffBuild, leftDoc, rightDoc, basicDifferences, basicStats>>
  /\ UNCHANGED hookVars

\* The try block of useDocumentComparison.compareDocuments on the contents
\* of two documents: generateDifferences, then calculateStats.
BasicCompare(leftContent0, rightContent0) ==
  /\ pc = "idle"
  /\ leftDoc = NoDoc
  /\ rightDoc = NoDoc
  /\ result' = [raised |-> FALSE,
                leftContent |-> leftContent0,
                rightContent |-> rightContent0]
  /\ basicDifferences' = GenerateDifferences(leftContent0, rightContent0)
  /\ basicStats' = CalculateStats(basicDifferences')
  /\ pc' = "generated"
  /\ UNCHANGED <<diffBuild, leftDoc, rightDoc>>
  /\ UNCHANGED hookVars

\* DiffEngine.calculateStats on a difference list.
BasicCalculateStats(kinds) ==
  /\ pc = "idle"
  /\ leftDoc = NoDoc
  /\ rightDoc = NoDoc
  /\ basicDifferences' =
       [i \in 1..Len(kinds) |-> [type |-> kinds[i][1], category |-> kinds[i][2]]]
  /\ basicStats' = CalculateStats(basicDifferences')
  /\ pc' = "basic"
  /\ UNCHANGED <<diffBuild, leftDoc, rightDoc, result>>
  /\ UNCHANGED hookVars

Next ==
  \/ \E side \in {"left", "right"}, content \in TextContents : ParseText(side, content)
  \/ \E side \in {"left", "right"}, content \in TextContents : ParseWord(side, content)
  \/ \E side \in {"left", "right"}, pageTexts \in PdfContents : ParsePDF(side, pageTexts)
  \/ Compare
  \/ \E lineIndex \in QueryIndexes : QueryPosition(lineIndex)
  \/ DetectWords
  \/ \E order \in CompletionOrders : OptimizeInOrder(order)
  \/ \E left \in SimilarityStrings, right \in SimilarityStrings :
       MeasureSimilarity(left, right)
  \/ \E kinds \in SummaryLists : Summarize(kinds)
  \/ \E leftContent0 \in TextContents, rightContent0 \in TextContents :
       BasicCompare(leftContent0, rightContent0)
  \/ \E kinds \in BasicDifferenceKinds : BasicCalculateStats(kinds)

Spec == Init /\ [][Next]_vars

Compared == pc \in {"returned", "raised"}

\* ------------------------------------------------- useAdvancedComparison
\* The texts of the files uploaded through the hook.
HookContents == {<<>>, <<"A">>, <<"a", SP, "b">>}

engineVars == <<diffBuild, result, pc, basicDifferences, basicStats>>

\* processDocument as a call that no other call overlaps: the file is
\* parsed and stored as the document of its side; isLoading[side] is true
\* only while the parse runs.  The effect of
\* lines 110-114 is due once both documents are there; it runs before the
\* next event is handled.
ProcessDocument(side, content) ==
  /\ ~effectPending
  /\ UNCHANGED <<inFlight, lastCall>>
  /\ IF side = "left"
     THEN leftDoc' = ParseTextDocument(content) /\ UNCHANGED rightDoc
     ELSE rightDoc' = ParseTextDocument(content) /\ UNCHANGED leftDoc
  /\ effectPending' = (leftDoc' # NoDoc /\ rightDoc' # NoDoc)
  /\ errors' = [errors EXCEPT ![side] = NoError]
  /\ isLoading' = [isLoading EXCEPT ![side] = FALSE]
  /\ UNCHANGED <<comparisonResult, viewportState, navigationState, compareCall>>
  /\ UNCHANGED engineVars

\* processDocument whose parse throws: the message is stored for the side.
ProcessDocumentFailed(side) ==
  /\ ~effectPending
  /\ UNCHANGED <<inFlight, lastCall>>
  /\ UNCHANGED effectPending
  /\ errors' = [errors EXCEPT ![side] = "parse error"]
  /\ isLoading' = [isLoading EXCEPT ![side] = FALSE]
  /\ UNCHANGED <<leftDoc, rightDoc, comparisonResult, viewportState, navigationState>>
  /\ UNCHANGED compareCall
  /\ UNCHANGED engineVars

\* A catch branch that also clears the shown result.
CompareRaisedClearing(error) ==
  /\ errors' = [errors EXCEPT !.comparison = error.message]
  /\ comparisonResult' = NoResult
  /\ UNCHANGED <<viewportState, navigationState>>

\* The catch branch of compareDocuments: the engine threw before any setter
\* of the try block ran.
CompareRaised(error) ==
  /\ errors' = [errors EXCEPT !.comparison = error.message]
  /\ UNCHANGED <<comparisonResult, viewportState, navigationState>>

\* The try block of compareDocuments after the engine returned.
CompareReturned(engineResult) ==
  /\ errors' = [errors EXCEPT !.comparison = NoError]
  /\ comparisonResult' = [differences |-> engineResult.differences,
                          statistics |-> engineResult.statistics,
                          summary |-> engineResult.summary]
  /\ navigationState' =
       [navigationState EXCEPT
          !.totalDifferences = Len(engineResult.differences),
          !.currentDifferenceIndex =
            IF Len(engineResult.differences) > 0 THEN 0 ELSE -1]
  /\ viewportState' =
       IF Len(engineResult.differences) > 0
       THEN [viewportState EXCEPT
               !.selectedDifference = engineResult.differences[1].id]
       ELSE viewportState

\* compareDocuments of the hook, called by the effect that follows a change
\* of the documents or by the component.
HookCompare ==
  /\ IF leftDoc = NoDoc \/ rightDoc = NoDoc
     THEN /\ comparisonResult' = NoResult
          /\ UNCHANGED <<isLoading, errors, viewportState, navigationState>>
          /\ compareCall' = [made |-> TRUE, nullDocument |-> TRUE,
                             error |-> NoError, result |-> comparisonResult']
     ELSE /\ isLoading' = [isLoading EXCEPT !.comparing = FALSE]
          /\ LET engineResult == CompareDocuments(leftDoc, rightDoc)
             IN  IF engineResult.raised
                 THEN CompareRaised(engineResult.error)
                 ELSE CompareReturned(engineResult)
          /\ compareCall' = [made |-> TRUE, nullDocument |-> FALSE,
                             error |-> errors'.comparison,
                             result |-> comparisonResult']
  /\ effectPending' = FALSE
  /\ UNCHANGED <<inFlight, lastCall>>
  /\ UNCHANGED <<leftDoc, rightDoc>>
  /\ UNCHANGED engineVars

\* The ids handed to selectDifference: those of the shown result and one
\* that no difference has.
UnknownId == <<"none">>

SelectableIds ==
  {UnknownId} \cup
    (IF comparisonResult = NoResult THEN {}
     ELSE {comparisonResult.differences[i].id :
             i \in 1..Len(comparisonResult.differences)})

\* The 1-based place of the difference with the given id, 0 when none.
FindPlaceById(differences, differenceId) ==
  IF \E i \in 1..Len(differences) : differences[i].id = differenceId
  THEN CHOOSE i \in 1..Len(differences) : differences[i].id = differenceId
  ELSE 0

\* differences.findIndex(d => d.id === differenceId), 0-based.
FindIndexById(differences, differenceId) ==
  IF \E i \in 1..Len(differences) : differences[i].id = differenceId
  THEN (CHOOSE i \in 1..Len(differences) :
          /\ differences[i].id = differenceId
          /\ \A m \in 1..(i - 1) : differences[m].id # differenceId) - 1
  ELSE -1

\* array.slice(-n): the last n elements.
LastOf(array, n) ==
  IF Len(array) <= n THEN array ELSE SubSeq(array, Len(array) - n + 1, Len(array))

\* The body of selectDifference.
Select(differenceId) ==
  IF comparisonResult = NoResult
  THEN UNCHANGED <<viewportState, navigationState>>
  ELSE LET index == FindIndexById(comparisonResult.differences, differenceId)
       IN  IF index # -1
           THEN /\ viewportState' =
                     [viewportState EXCEPT !.selectedDifference = differenceId]
                /\ navigationState' =
                     [navigationState EXCEPT
                        !.currentDifferenceIndex = index,
                        !.navigationHistory =
                          Append(LastOf(@, 9), differenceId)]
           ELSE UNCHANGED <<viewportState, navigationState>>

\* What the navigation handlers leave alone.
NavigationFrame ==
  /\ ~effectPending
  /\ UNCHANGED <<inFlight, lastCall>>
  /\ Len(navigationState.navigationHistory) < MaxHistory
  /\ UNCHANGED <<leftDoc, rightDoc, comparisonResult, isLoading, errors>>
  /\ UNCHANGED <<compareCall, effectPending>>
  /\ UNCHANGED engineVars

\* selectDifference
SelectDifference(differenceId) ==
  /\ NavigationFrame
  /\ Select(differenceId)

\* navigateToNext
NavigateToNext ==
  /\ NavigationFrame
  /\ IF comparisonResult = NoResult
     THEN UNCHANGED <<viewportState, navigationState>>
     ELSE IF Len(comparisonResult.differences) = 0
     THEN UNCHANGED <<viewportState, navigationState>>
     ELSE LET nextIndex == Min(navigationState.currentDifferenceIndex + 1,
                               Len(comparisonResult.differences) - 1)
          IN  Select(comparisonResult.differences[nextIndex + 1].id)

\* navigateToPrevious
NavigateToPrevious ==
  /\ NavigationFrame
  /\ IF comparisonResult = NoResult
     THEN UNCHANGED <<viewportState, navigationState>>
     ELSE IF Len(comparisonResult.differences) = 0
     THEN UNCHANGED <<viewportState, navigationState>>
     ELSE LET prevIndex == Max(navigationState.currentDifferenceIndex - 1, 0)
          IN  Select(comparisonResult.differences[prevIndex + 1].id)

\* clearComparison
ClearComparison ==
  /\ ~effectPending
  /\ UNCHANGED <<inFlight, lastCall>>
  /\ UNCHANGED effectPending
  /\ leftDoc' = NoDoc
  /\ rightDoc' = NoDoc
  /\ comparisonResult' = NoResult
  /\ errors' = [left |-> NoError, right |-> NoError, comparison |-> NoError]
  /\ viewportState' = InitialViewportState
  /\ navigationState' = InitialNavigationState
  /\ UNCHANGED <<isLoading, compareCall>>
  /\ UNCHANGED engineVars

HookNext ==
  \/ \E side \in {"left", "right"}, content \in HookContents :
       ProcessDocument(side, content)
  \/ \E side \in {"left", "right"} : ProcessDocumentFailed(side)
  \/ HookCompare
  \/ \E differenceId \in SelectableIds : SelectDifference(differenceId)
  \/ NavigateToNext
  \/ NavigateToPrevious
  \/ ClearComparison

HookSpec == Init /\ [][HookNext]_vars

\* ------------------------------- processDocument, one step per await
\* The sequence without its k-th element.
Without(calls, k) == SubSeq(calls, 1, k - 1) \o SubSeq(calls, k + 1, Len(calls))

\* What the steps of processDocument leave alone.
ProcessFrame ==
  /\ UNCHANGED <<comparisonResult, viewportState, navigationState>>
  /\ UNCHANGED <<compareCall, effectPending>>
  /\ UNCHANGED engineVars

\* processDocument (and processFile of useDocumentComparison) up to its
\* await: the side is marked as loading, its error is cleared and the parse
\* of the file begins.
StartProcessDocument(side, content) ==
  /\ Len(inFlight) < MaxCalls
  /\ isLoading' = [isLoading EXCEPT ![side] = TRUE]
  /\ errors' = [errors EXCEPT ![side] = NoError]
  /\ inFlight' = Append(inFlight, [side |-> side, content |-> content])
  /\ lastCall' = [lastCall EXCEPT
                    ![side] = [outcome |-> "pending", content |-> content,
                               place |-> Len(inFlight) + 1]]
  /\ UNCHANGED <<leftDoc, rightDoc>>
  /\ ProcessFrame

\* lastCall after the k-th call in flight has ended with the given outcome.
LastCallAfter(k, outcome) ==
  [side \in {"left", "right"} |->
     IF lastCall[side].outcome # "pending" THEN lastCall[side]
     ELSE IF lastCall[side].place = k
     THEN [outcome |-> outcome, content |-> lastCall[side].content]
     ELSE IF lastCall[side].place > k
     THEN [lastCall[side] EXCEPT !.place = @ - 1]
     ELSE lastCall[side]]

\* processDocument after its await, the parse fulfilled: the document is
\* stored and, in the finally block, the side is no longer loading.
FinishProcessDocument(k) ==
  /\ k \in 1..Len(inFlight)
  /\ IF inFlight[k].side = "left"
     THEN leftDoc' = ParseTextDocument(inFlight[k].content) /\ UNCHANGED rightDoc
     ELSE rightDoc' = ParseTextDocument(inFlight[k].content) /\ UNCHANGED leftDoc
  /\ isLoading' = [isLoading EXCEPT ![inFlight[k].side] = FALSE]
  /\ inFlight' = Without(inFlight, k)
  /\ lastCall' = LastCallAfter(k, "stored")
  /\ UNCHANGED errors
  /\ ProcessFrame

\* processDocument after its await, the parse rejected: the message is
\* stored and, in the finally block, the side is no longer loading.
FailProcessDocument(k) ==
  /\ k \in 1..Len(inFlight)
  /\ errors' = [errors EXCEPT ![inFlight[k].side] = "parse error"]
  /\ isLoading' = [isLoading EXCEPT ![inFlight[k].side] = FALSE]
  /\ inFlight' = Without(inFlight, k)
  /\ lastCall' = LastCallAfter(k, "failed")
  /\ UNCHANGED <<leftDoc, rightDoc>>
  /\ ProcessFrame

LoadNext ==
  \/ \E side \in {"left", "right"}, content \in HookContents :
       StartProcessDocument(side, content)
  \/ \E k \in 1..MaxCalls : FinishProcessDocument(k)
  \/ \E k \in 1..MaxCalls : FailProcessDocument(k)

LoadSpec == Init /\ [][LoadNext]_vars

\* ------------------------------------------------------------------ claims
IsOne(x) == x.k = "fin" /\ x.n = x.d

IsZero(x) == x.k = "fin" /\ x.n = 0

InUnitInterval(x) == x.k = "fin" /\ 0 <= x.n /\ x.n <= x.d

\* C1: for every pair of populated documents compareDocuments returns one
\* ComparisonResult and does not raise, whether or not the line-level edit
\* script has unchanged segments.
C1_AlwaysReturns == Compared => (pc = "returned" /\ ~result.raised)

\* C2: comparing a document with an identical copy of itself yields no
\* differences and overallSimilarity 1.0.
C2_Idempotence ==
  (Compared /\ leftDoc = rightDoc) =>
    /\ pc = "returned"
    /\ result.differences = <<>>
    /\ IsOne(result.statistics.overallSimilarity)

\* C3: left "A\nB\nC" against right "A\nB\nD", one page each, yields exactly
\* two differences: the deletion of "C" and the addition of "D", both at
\* line 3.
C3_LineThreeScenario ==
  ( /\ Compared
    /\ leftDoc = ParseTextDocument(<<"A", NL, "B", NL, "C">>)
    /\ rightDoc = ParseTextDocument(<<"A", NL, "B", NL, "D">>) ) =>
    /\ pc = "returned"
    /\ Len(result.differences) = 2
    /\ \E i \in 1..2 :
         /\ result.differences[i].type = "deletion"
         /\ result.differences[i].leftContent = <<"C">>
         /\ result.differences[i].leftPosition.line = 3
    /\ \E i \in 1..2 :
         /\ result.differences[i].type = "addition"
         /\ result.differences[i].rightContent = <<"D">>
         /\ result.differences[i].rightPosition.line = 3

BothEmpty ==
  /\ leftDoc # NoDoc
  /\ rightDoc # NoDoc
  /\ ExtractFullContent(leftDoc) = <<>>
  /\ ExtractFullContent(rightDoc) = <<>>
  /\ leftDoc.characterCount = 0
  /\ rightDoc.characterCount = 0

\* C4: two empty documents compare without an error to no differences, all
\* counts 0, overallSimilarity 1.0 and averageConfidence 0.
C4_EmptyDocuments ==
  (Compared /\ BothEmpty) =>
    /\ pc = "returned"
    /\ result.differences = <<>>
    /\ \A f \in {"totalDifferences", "additions", "deletions", "modifications",
                 "formatChanges", "structureChanges", "critical", "high",
                 "medium", "low"} : result.statistics[f] = 0
    /\ IsOne(result.statistics.overallSimilarity)
    /\ IsZero(result.statistics.averageConfidence)

\* Every offset of every line of doc has one position in the index, the
\* key of that position leads back to the offset, and no key is shared.
RoundTrip(doc) ==
  LET index == doc.positionIndex
  IN  /\ \A p \in 1..Len(doc.pages) :
           \A l \in 1..Len(doc.pages[p].lines) :
             \A o \in doc.pages[p].lines[l].startOffset..doc.pages[p].lines[l].endOffset :
               /\ o \in DOMAIN index.offsetToPosition
               /\ index.offsetToPosition[o].absoluteOffset = o
               /\ PositionKey(index.offsetToPosition[o]) \in DOMAIN index.positionToOffset
               /\ index.positionToOffset[PositionKey(index.offsetToPosition[o])] = o
      /\ \A o1, o2 \in DOMAIN index.offsetToPosition :
           o1 # o2 =>
             PositionKey(index.offsetToPosition[o1])
               # PositionKey(index.offsetToPosition[o2])

\* C5: in every document the parser builds, every offset covered by a line
\* maps to one position whose (page, line, column) key maps back to the
\* offset, and no two offsets share a key.
C5_PositionRoundTrip ==
  /\ leftDoc # NoDoc => RoundTrip(leftDoc)
  /\ rightDoc # NoDoc => RoundTrip(rightDoc)

\* A document of two pages whose second page has a line of two offsets.
C5_Witness ==
  /\ leftDoc # NoDoc
  /\ leftDoc.pageCount = 2
  /\ \E o \in DOMAIN leftDoc.positionIndex.offsetToPosition :
       /\ leftDoc.positionIndex.offsetToPosition[o].page = 2
       /\ leftDoc.positionIndex.offsetToPosition[o].column = 2

\* C6: compareDocuments(A, B) and compareDocuments(B, A) have the same
\* totalDifferences, and the additions of one are the deletions of the
\* other.
C6_Symmetry ==
  Compared =>
    LET mirrored == CompareDocuments(rightDoc, leftDoc)
    IN  /\ ~result.raised
        /\ ~mirrored.raised
        /\ result.statistics.totalDifferences = mirrored.statistics.totalDifferences
        /\ result.statistics.additions = mirrored.statistics.deletions
        /\ result.statistics.deletions = mirrored.statistics.additions

CountsConsistent(statistics, differences) ==
  /\ statistics.totalDifferences = Len(differences)
  /\ statistics.additions + statistics.deletions + statistics.modifications
       <= statistics.totalDifferences

\* C7: in every result totalDifferences is the length of the difference
\* list and additions + deletions + modifications <= totalDifferences; so
\* too for the basic engine's calculateStats.
C7_CountConsistency ==
  /\ pc = "returned" => CountsConsistent(result.statistics, result.differences)
  /\ pc = "basic" => CountsConsistent(basicStats, basicDifferences)

\* A result that has a structure-type difference next to text differences.
C7_Witness ==
  /\ pc = "returned"
  /\ result.statistics.totalDifferences >= 3
  /\ result.statistics.additions + result.statistics.deletions
       < result.statistics.totalDifferences

\* C8: for every pair, the similarity and confidence of every difference and
\* the overallSimilarity and averageConfidence of the statistics are numbers
\* in [0, 1].
C8_BoundedScores ==
  Compared =>
    /\ pc = "returned"
    /\ \A i \in 1..Len(result.differences) :
         /\ InUnitInterval(result.differences[i].similarity)
         /\ InUnitInterval(result.differences[i].confidence)
    /\ InUnitInterval(result.statistics.overallSimilarity)
    /\ InUnitInterval(result.statistics.averageConfidence)

\* The differences of the result that report the page-count change.
PageCountReports ==
  {i \in 1..Len(result.differences) :
     /\ result.differences[i].category = "structure"
     /\ result.differences[i].type = "structure"
     /\ result.differences[i].severity = "high"
     /\ IsOne(result.differences[i].confidence)
     /\ result.differences[i].description =
          <<"page count changed: ">> \o Digits(leftDoc.pageCount) \o <<" -> ">>
            \o Digits(rightDoc.pageCount)
     /\ result.differences[i].leftPosition.page = 1
     /\ result.differences[i].leftPosition.line = 1}

\* C10: the result holds exactly one page-count difference (structure,
\* high, confidence 1.0, at page 1, line 1) when the page counts differ,
\* and none when they are equal.
C10_PageCountDifference ==
  Compared =>
    /\ pc = "returned"
    /\ Cardinality(PageCountReports)
         = (IF leftDoc.pageCount # rightDoc.pageCount THEN 1 ELSE 0)
    /\ \A i \in 1..Len(result.differences) :
         result.differences[i].id = <<"struct-page-count">> => i \in PageCountReports

\* The outputs of the three differs in the order compareDocuments
\* concatenates them: line-level, word-level, structural.
RawDifferences ==
  DetectLineDifferences(leftDoc, rightDoc).differences
    \o DetectWordDifferences(leftDoc, rightDoc)
    \o DetectStructuralDifferences(leftDoc, rightDoc)

SamePair(a, b) == a.leftContent = b.leftContent /\ a.rightContent = b.rightContent

\* C11: in every result no two differences have the same (leftContent,
\* rightContent) pair, every difference of the result is the first entry of
\* the concatenated differ outputs with its pair, and every such first
\* entry (so every entry whose pair occurs once) is in the result.
C11_Deduplication ==
  pc = "returned" =>
    LET raw == RawDifferences
        out == result.differences
    IN  /\ \A i, j \in 1..Len(out) : i # j => ~SamePair(out[i], out[j])
        /\ \A i \in 1..Len(out) :
             \E k \in 1..Len(raw) :
               /\ raw[k] = out[i]
               /\ \A m \in 1..(k - 1) : ~SamePair(raw[m], raw[k])
        /\ \A k \in 1..Len(raw) :
             (\A m \in 1..(k - 1) : ~SamePair(raw[m], raw[k]))
               => \E i \in 1..Len(out) : out[i] = raw[k]

\* A result from which the optimizer dropped a later duplicate and kept
\* several differences.
C11_Witness ==
  /\ pc = "returned"
  /\ Len(result.differences) >= 2
  /\ Len(result.differences) < Len(RawDifferences)

\* a is before b in the order of (page, line, column) of leftPosition.
KeyLess(a, b) ==
  \/ a.leftPosition.page < b.leftPosition.page
  \/ /\ a.leftPosition.page = b.leftPosition.page
     /\ a.leftPosition.line < b.leftPosition.line
  \/ /\ a.leftPosition.page = b.leftPosition.page
     /\ a.leftPosition.line = b.leftPosition.line
     /\ a.leftPosition.column < b.leftPosition.column

\* The place of difference d in the sequence raw.
RawIndex(raw, d) ==
  CHOOSE k \in 1..Len(raw) : raw[k] = d /\ \A m \in 1..(k - 1) : raw[m] # d

\* The places in the concatenated differ outputs of the differences of the
\* result, in the order of the result.
RawPlaces ==
  LET raw == RawDifferences
  IN  [i \in 1..Len(result.differences) |-> RawIndex(raw, result.differences[i])]

\* C12: in every result the differences ascend by (leftPosition.page,
\* leftPosition.line, leftPosition.column), and two differences equal on the
\* three keys keep the order they have in the concatenated differ outputs.
C12_Ordering ==
  pc = "returned" =>
    LET out == result.differences
        places == RawPlaces
    IN  /\ \A i \in 1..(Len(out) - 1) : ~KeyLess(out[i + 1], out[i])
        /\ \A i, j \in 1..Len(out) :
             (i < j /\ ~KeyLess(out[i], out[j]) /\ ~KeyLess(out[j], out[i]))
               => places[i] < places[j]

\* A result in which the sort moved a difference in front of one that the
\* differs emitted earlier, and which has two differences equal on the keys.
C12_Witness ==
  /\ pc = "returned"
  /\ LET out == result.differences
         places == RawPlaces
     IN  /\ \E i, j \in 1..Len(out) : i < j /\ places[i] > places[j]
         /\ \E i, j \in 1..Len(out) :
              i < j /\ ~KeyLess(out[i], out[j]) /\ ~KeyLess(out[j], out[i])

\* C13: a query of findPositionByLineIndex for a line index past the last
\* line of the document ends in an out-of-range error.
C13_OutOfRangeRejected ==
  (pc = "queried" /\ result.lineIndex >= leftDoc.lineCount) => result.raised

\* C14: a comparison invoked through the hook with a null document on
\* either side is rejected with an error, and is not answered with a null
\* result and no error.
C14_NullDocumentRejected ==
  (compareCall.made /\ compareCall.nullDocument) => compareCall.error # NoError

\* C15: when the engine raises inside compareDocuments of the hook,
\* comparisonResult, navigationState and viewportState.selectedDifference
\* stay as they were, errors.comparison is the error message and
\* isLoading.comparing is false afterwards.
C15_NoPartialCompletion ==
  [][(/\ HookCompare
      /\ leftDoc # NoDoc
      /\ rightDoc # NoDoc
      /\ CompareDocuments(leftDoc, rightDoc).raised)
       => /\ comparisonResult' = comparisonResult
          /\ navigationState' = navigationState
          /\ viewportState'.selectedDifference = viewportState.selectedDifference
          /\ errors'.comparison = CompareDocuments(leftDoc, rightDoc).error.message
          /\ isLoading'.comparing = FALSE]_vars

\* The engine raised on the current pair while the result, the selection
\* and the navigation state of an earlier comparison are in place.
C15_Witness ==
  /\ leftDoc # NoDoc
  /\ rightDoc # NoDoc
  /\ CompareDocuments(leftDoc, rightDoc).raised
  /\ errors.comparison # NoError
  /\ comparisonResult # NoResult
  /\ viewportState.selectedDifference # NoId
  /\ navigationState.totalDifferences > 0

\* C16: within every result the ids of the differences are pairwise
\* distinct.
C16_UniqueIds ==
  pc = "returned" =>
    \A i, j \in 1..Len(result.differences) :
      i # j => result.differences[i].id # result.differences[j].id

\* A result with two word-level differences of the same kind in the same
\* paragraph, next to a line-level and a structural difference.
C16_Witness ==
  /\ pc = "returned"
  /\ LET out == result.differences
     IN  /\ \E i, j \in 1..Len(out) :
              /\ i # j
              /\ out[i].id[1] = "word-"
              /\ out[j].id[1] = "word-"
              /\ out[i].type = out[j].type
              /\ out[i].leftPosition.line = out[j].leftPosition.line
         /\ \E i \in 1..Len(out) : out[i].id[1] \in {"line-add-", "line-del-"}
         /\ \E i \in 1..Len(out) : out[i].category = "structure"

\* The number of entries of titles equal to title.
Occurrences(titles, title) ==
  Cardinality({i \in 1..Len(titles) : titles[i] = title})

\* The number of section titles added plus the number removed between the
\* two title lists.
ChangedTitles(leftTitles, rightTitles) ==
  LET all == {leftTitles[i] : i \in 1..Len(leftTitles)}
               \cup {rightTitles[i] : i \in 1..Len(rightTitles)}
      Change(title) ==
        LET l == Occurrences(leftTitles, title)
            r == Occurrences(rightTitles, title)
        IN  IF l > r THEN l - r ELSE r - l
      RECURSIVE Sum(_)
      Sum(S) == IF S = {} THEN 0
                ELSE LET t == CHOOSE t \in S : TRUE IN Change(t) + Sum(S \ {t})
  IN  Sum(all)

\* The section differences the structural differ emits for the documents.
SectionDifferences ==
  SelectSeq(DetectStructuralDifferences(leftDoc, rightDoc),
            LAMBDA d : d.id[1] = "struct-section-")

\* C17: the structural differ emits one structure-category, medium-severity
\* difference of confidence 0.9 per added or removed section title: as many
\* section differences as there are added plus removed titles.
C17_OneDifferencePerTitle ==
  pc = "returned" =>
    /\ Len(SectionDifferences)
         = ChangedTitles(SectionTitles(leftDoc), SectionTitles(rightDoc))
    /\ \A i \in 1..Len(SectionDifferences) :
         /\ SectionDifferences[i].category = "structure"
         /\ SectionDifferences[i].severity = "medium"
         /\ SectionDifferences[i].confidence = Fin(9, 10)

\* x is the number n / d.
IsQuotient(x, n, d) == x.k = "fin" /\ x.n * d = n * x.d

\* The sum over differences[1..k] of the larger of the two content lengths.
RECURSIVE LargerLengths(_, _)
LargerLengths(differences, k) ==
  IF k = 0 THEN 0
  ELSE LargerLengths(differences, k - 1)
         + (IF Len(differences[k].leftContent) > Len(differences[k].rightContent)
            THEN Len(differences[k].leftContent)
            ELSE Len(differences[k].rightContent))

\* The sum of the confidences of differences[1..k], in tenths.
RECURSIVE Tenths(_, _)
Tenths(differences, k) ==
  IF k = 0 THEN 0
  ELSE Tenths(differences, k - 1)
         + (differences[k].confidence.n * 10) \div differences[k].confidence.d

\* C18: overallSimilarity is max(0, (M - T) / M) for M the larger
\* characterCount and T the sum of the larger content lengths, and 1.0 when
\* M = 0; averageConfidence is the mean of the confidences, and 0 when there
\* are no differences.
C18_SimilarityFormula ==
  pc = "returned" =>
    LET out == result.differences
        M == IF leftDoc.characterCount > rightDoc.characterCount
             THEN leftDoc.characterCount ELSE rightDoc.characterCount
        T == LargerLengths(out, Len(out))
    IN  /\ IF M = 0 THEN IsOne(result.statistics.overallSimilarity)
           ELSE IF T >= M THEN IsZero(result.statistics.overallSimilarity)
           ELSE IsQuotient(result.statistics.overallSimilarity, M - T, M)
        /\ IF Len(out) = 0 THEN IsZero(result.statistics.averageConfidence)
           ELSE IsQuotient(result.statistics.averageConfidence,
                           Tenths(out, Len(out)), 10 * Len(out))

\* low < medium < high < critical
SeverityRank(severity) ==
  CASE severity = "low" -> 1
    [] severity = "medium" -> 2
    [] severity = "high" -> 3
    [] severity = "critical" -> 4

\* The descriptions of the differences of the given category, in order.
DescriptionsOfCategory(differences, category) ==
  LET chosen == SelectSeq(differences, LAMBDA d : d.category = category)
  IN  [i \in 1..Len(chosen) |-> chosen[i].description]

RECURSIVE AllLines(_, _)
AllLines(doc, p) ==
  IF p = 0 THEN <<>> ELSE AllLines(doc, p - 1) \o doc.pages[p].lines

\* The number of line breaks in the parts before part k of the edit script
\* that belong to the given side: the unchanged parts and the side's own.
RECURSIVE LineBreaksBefore(_, _, _)
LineBreaksBefore(script, k, added) ==
  IF k <= 1 THEN 0
  ELSE LineBreaksBefore(script, k - 1, added)
         + (IF (added /\ script[k - 1].removed) \/ (~added /\ script[k - 1].added)
            THEN 0 ELSE CountNewlines(script[k - 1].value))

\* C20: for each added (removed) part of the line-level edit script the line
\* differ emits exactly one difference, in script order, whose rightContent
\* (leftContent) is the whole part, whose confidence is 0.9 and whose
\* position is the page and line of the part's first line in the right
\* (left) document.
C20_OneDifferencePerSegment ==
  Compared =>
    LET script == DiffLines(ExtractFullContent(leftDoc), ExtractFullContent(rightDoc))
        changed == SelectSeq([k \in 1..Len(script) |-> k],
                             LAMBDA k : script[k].added \/ script[k].removed)
        outcome == DetectLineDifferences(leftDoc, rightDoc)
    IN  /\ ~outcome.raised
        /\ Len(outcome.differences) = Len(changed)
        /\ \A n \in 1..Len(changed) :
             LET part == script[changed[n]]
                 d == outcome.differences[n]
                 doc == IF part.added THEN rightDoc ELSE leftDoc
                 line == AllLines(doc, Len(doc.pages))
                           [LineBreaksBefore(script, changed[n], part.added) + 1]
             IN  /\ d.confidence = Fin(9, 10)
                 /\ IF part.added
                    THEN d.rightContent = part.value /\ d.leftContent = <<>>
                    ELSE d.leftContent = part.value /\ d.rightContent = <<>>
                 /\ d.leftPosition.page = line.pageNumber
                 /\ d.leftPosition.line = line.lineNumber
                 /\ d.rightPosition = d.leftPosition

\* The distances from the suffix of a that starts at i to the suffixes of b
\* that start at j, j + 1, ..., Len(b) + 1, given the same for the suffix of
\* a that starts at i + 1 (below, from 1) and for j + 1 onwards (row).
RECURSIVE SuffixDistances(_, _, _, _, _, _)
SuffixDistances(a, i, b, below, j, row) ==
  IF j = 0 THEN row
  ELSE SuffixDistances(a, i, b, below, j - 1,
         <<IF a[i] = b[j] THEN below[j + 1]
           ELSE 1 + Min(below[j + 1], Min(below[j], Head(row)))>> \o row)

\* The distances from the suffix of a that starts at i to every suffix of b.
RECURSIVE DistancesFrom(_, _, _)
DistancesFrom(a, i, b) ==
  IF i > Len(a) THEN [j \in 1..(Len(b) + 1) |-> Len(b) + 1 - j]
  ELSE SuffixDistances(a, i, b, DistancesFrom(a, i + 1, b), Len(b),
                       <<Len(a) + 1 - i>>)

\* The edit distance of a and b: the least number of insertions, deletions
\* and substitutions of one character that turn a into b.  Two empty
\* suffixes are 0 apart, an empty one and another the other's length; two
\* suffixes with the same first character are as far apart as their rests;
\* otherwise one edit is spent on a substitution, a deletion or an
\* insertion.
EditDistance(a, b) == DistancesFrom(a, 1, b)[1]

\* x is the normalized Levenshtein similarity of a and b.
IsNormalizedSimilarity(x, a, b) ==
  IF a = <<>> /\ b = <<>> THEN IsOne(x)
  ELSE IsQuotient(x, Max(Len(a), Len(b)) - EditDistance(a, b), Max(Len(a), Len(b)))

\* The i-th (1-based) paragraph, the empty string when there is none.
ParagraphOrEmpty(paragraphs, i) ==
  IF i <= Len(paragraphs) THEN paragraphs[i] ELSE <<>>

\* The differences claimed for the paragraph pair (left, right): none when
\* the two are equal, else one per added or removed part of the word diff.
ClaimedWordDifferences(left, right) ==
  IF left = right THEN <<>>
  ELSE LET parts == DiffWords(left, right)
           changed == SelectSeq(parts, LAMBDA part : part.added \/ part.removed)
       IN  [n \in 1..Len(changed) |->
              [type |-> IF changed[n].added THEN "addition" ELSE "deletion",
               leftContent |-> IF changed[n].removed THEN changed[n].value ELSE <<>>,
               rightContent |-> IF changed[n].added THEN changed[n].value ELSE <<>>,
               left |-> left,
               right |-> right]]

\* The claimed differences of all paragraph pairs up to index i.
RECURSIVE ClaimedWordDifferencesUpTo(_, _, _)
ClaimedWordDifferencesUpTo(leftParagraphs, rightParagraphs, i) ==
  IF i = 0 THEN <<>>
  ELSE ClaimedWordDifferencesUpTo(leftParagraphs, rightParagraphs, i - 1)
         \o ClaimedWordDifferences(ParagraphOrEmpty(leftParagraphs, i),
                                   ParagraphOrEmpty(rightParagraphs, i))

\* C21: the word-level differ compares the i-th non-blank paragraph of the
\* left document with the i-th of the right document only, a missing one
\* counting as the empty string; it emits nothing for equal paragraphs and
\* for unequal ones one difference per added or removed token run, with
\* confidence 0.8 and the normalized Levenshtein similarity of the two
\* paragraphs.
C21_WordDiffer ==
  pc = "words" =>
    LET leftParagraphs == ExtractParagraphs(leftDoc)
        rightParagraphs == ExtractParagraphs(rightDoc)
        claimed == ClaimedWordDifferencesUpTo(leftParagraphs, rightParagraphs,
                     Max(Len(leftParagraphs), Len(rightParagraphs)))
    IN  /\ Len(result.differences) = Len(claimed)
        /\ \A n \in 1..Len(claimed) :
             LET d == result.differences[n]
             IN  /\ d.type = claimed[n].type
                 /\ d.leftContent = claimed[n].leftContent
                 /\ d.rightContent = claimed[n].rightContent
                 /\ d.confidence = Fin(8, 10)
                 /\ IsNormalizedSimilarity(d.similarity, claimed[n].left,
                                           claimed[n].right)

\* The word differ ran on documents of two and one paragraphs whose first
\* paragraphs are equal, and on paragraphs that differ in one word.
C21_Witness ==
  /\ pc = "words"
  /\ Len(ExtractParagraphs(leftDoc)) = 2
  /\ Len(ExtractParagraphs(rightDoc)) = 1
  /\ ExtractParagraphs(leftDoc)[1] = ExtractParagraphs(rightDoc)[1]
  /\ Len(result.differences) = 1
  /\ result.differences[1].leftContent = <<"B">>
  /\ result.differences[1].similarity = Fin(0, 1)

\* C22: calculateWordSimilarity(a, b) is (max(len a, len b) - d(a, b)) /
\* max(len a, len b) with d the edit distance (insert, delete, substitute,
\* no transposition), 1 when both strings are empty, and the same for
\* (a, b) and (b, a).
C22_NormalizedLevenshtein ==
  pc = "measured" =>
    /\ IsNormalizedSimilarity(result.similarity, result.left, result.right)
    /\ result.similarity = CalculateWordSimilarity(result.right, result.left)

\* The similarity of "ab" and "ba" was measured: two substitutions, where a
\* transposition would count one.
C22_Witness ==
  /\ pc = "measured"
  /\ result.left = <<"a", "b">>
  /\ result.right = <<"b", "a">>
  /\ result.similarity = Fin(0, 2)

\* The documents parsed so far.
ParsedDocuments == {leftDoc, rightDoc} \ {NoDoc}

\* The lines of a page: every line is as long as its content, the lines are
\* numbered 1..n, and each starts one offset after the end of the one before.
LinesContiguous(page) ==
  /\ \A l \in 1..Len(page.lines) :
       /\ page.lines[l].endOffset - page.lines[l].startOffset
            = Len(page.lines[l].content)
       /\ page.lines[l].lineNumber = l
  /\ \A l \in 2..Len(page.lines) :
       page.lines[l].startOffset = page.lines[l - 1].endOffset + 1

\* The offsets a page covers: from the start of its first line to the end of
\* its last line.
PageOffsets(page) ==
  page.lines[1].startOffset..page.lines[Len(page.lines)].endOffset

\* C23: in every parsed document each line has endOffset - startOffset equal
\* to the length of its content, the lines of a page are numbered 1..n with
\* each line starting one offset after the end of the previous one, each
\* page's renderOffset is the startOffset of its first line, and the offset
\* ranges of the pages are disjoint and follow one another in page order.
C23_OffsetsContiguous ==
  \A doc \in ParsedDocuments :
    /\ \A p \in 1..Len(doc.pages) :
         /\ Len(doc.pages[p].lines) >= 1
         /\ LinesContiguous(doc.pages[p])
         /\ doc.pages[p].renderOffset = doc.pages[p].lines[1].startOffset
    /\ \A p \in 1..Len(doc.pages), q \in 1..Len(doc.pages) :
         p < q =>
           /\ PageOffsets(doc.pages[p]) \cap PageOffsets(doc.pages[q]) = {}
           /\ \A i \in PageOffsets(doc.pages[p]), j \in PageOffsets(doc.pages[q]) : i < j

\* A document of two pages with text on the first has been parsed, and a
\* document with two lines on a page.
C23_Witness ==
  /\ leftDoc # NoDoc
  /\ rightDoc # NoDoc
  /\ Len(leftDoc.pages) = 2
  /\ Len(leftDoc.pages[1].content) > 0
  /\ leftDoc.pages[2].renderOffset = Len(leftDoc.pages[1].content) + 1
  /\ Len(rightDoc.pages[1].lines) = 2
  /\ Len(rightDoc.pages[1].lines[1].content) > 0

ShownIds ==
  IF comparisonResult = NoResult THEN {}
  ELSE {comparisonResult.differences[i].id :
          i \in 1..Len(comparisonResult.differences)}

\* C25: whenever no comparison is running or due and comparisonResult is
\* non-null, comparisonResult is the result of comparing the current
\* leftDocument with the current rightDocument.
C25_ResultOfCurrentDocuments ==
  (~effectPending /\ ~isLoading.comparing /\ comparisonResult # NoResult) =>
    /\ leftDoc # NoDoc
    /\ rightDoc # NoDoc
    /\ LET engineResult == CompareDocuments(leftDoc, rightDoc)
       IN  /\ ~engineResult.raised
           /\ comparisonResult = [differences |-> engineResult.differences,
                                  statistics |-> engineResult.statistics,
                                  summary |-> engineResult.summary]

\* C26: once the effect has run, viewportState.selectedDifference is null
\* or the id of a difference of the current comparisonResult.
C26_SelectionInResult ==
  ~effectPending =>
    \/ viewportState.selectedDifference = NoId
    \/ viewportState.selectedDifference \in ShownIds

\* The navigation state fits the shown result.
NavigationFitsResult ==
  comparisonResult # NoResult =>
    /\ navigationState.totalDifferences = Len(comparisonResult.differences)
    /\ -1 <= navigationState.currentDifferenceIndex
    /\ navigationState.currentDifferenceIndex
         <= Len(comparisonResult.differences) - 1
    /\ (navigationState.currentDifferenceIndex = -1
          => Len(comparisonResult.differences) = 0)

\* navigateToNext at the last index and navigateToPrevious at index 0 keep
\* the index; selectDifference with an id of no difference changes nothing.
NavigationAtTheEnds ==
  /\ (/\ NavigateToNext
      /\ comparisonResult # NoResult
      /\ navigationState.currentDifferenceIndex
           = Len(comparisonResult.differences) - 1)
       => navigationState'.currentDifferenceIndex
            = navigationState.currentDifferenceIndex
  /\ (/\ NavigateToPrevious
      /\ comparisonResult # NoResult
      /\ navigationState.currentDifferenceIndex = 0)
       => navigationState'.currentDifferenceIndex = 0
  /\ (SelectDifference(UnknownId) /\ UnknownId \notin ShownIds)
       => UNCHANGED <<comparisonResult, viewportState, navigationState>>

\* C27: when comparisonResult is non-null, totalDifferences is the number
\* of differences and currentDifferenceIndex is in -1..length - 1, -1 only
\* when there are no differences; navigateToNext at the last index and
\* navigateToPrevious at index 0 leave the index unchanged; selectDifference
\* with an id that is not in the result changes nothing.
C27_NavigationInRange ==
  []NavigationFitsResult /\ [][NavigationAtTheEnds]_vars

\* The last of two or more differences has been reached by navigation.
C27_Witness ==
  /\ comparisonResult # NoResult
  /\ Len(comparisonResult.differences) >= 2
  /\ navigationState.currentDifferenceIndex = Len(comparisonResult.differences) - 1
  /\ Len(navigationState.navigationHistory) = MaxHistory
  /\ viewportState.selectedDifference
       = comparisonResult.differences[Len(comparisonResult.differences)].id

\* The calls in flight for a side.
InFlightFor(side) == {k \in 1..Len(inFlight) : inFlight[k].side = side}

\* The document stored for a side.
StoredDocument(side) == IF side = "left" THEN leftDoc ELSE rightDoc

\* C28: once no processDocument call for a side is in flight, the document
\* stored for the side is the one parsed from the file of the call that
\* was started last (given that its parse was fulfilled), whatever the
\* order in which the parses finished; and isLoading of the side is true
\* for as long as a call for the side is in flight.
C28_LastStartedWins ==
  \A side \in {"left", "right"} :
    /\ (InFlightFor(side) = {} /\ lastCall[side].outcome = "stored")
         => StoredDocument(side) = ParseTextDocument(lastCall[side].content)
    /\ InFlightFor(side) # {} => isLoading[side]

\* The difference's content on a side is the piece of the side's text that
\* starts at the side's offset, and the side's line is the number of line
\* breaks of the text before that offset.
AtItsPlace(text, position, content) ==
  /\ position.offset + Len(content) <= Len(text)
  /\ SubSeq(text, position.offset + 1, position.offset + Len(content)) = content
  /\ position.line = CountNewlines(SubSeq(text, 1, position.offset))

\* C29: for every difference generateDifferences(L, R) returns, a
\* deletion's leftContent is the piece of L at leftPosition.offset and
\* leftPosition.line counts the line breaks of L before it, an addition's
\* rightContent is the piece of R at rightPosition.offset and
\* rightPosition.line counts the line breaks of R before it, and exactly
\* one of leftContent and rightContent is non-empty; the call returns no
\* difference when L and R are both empty.
C29_BasicPositions ==
  pc = "generated" =>
    /\ \A n \in 1..Len(basicDifferences) :
         LET d == basicDifferences[n]
         IN  /\ d.type = "deletion"
                  => AtItsPlace(result.leftContent, d.leftPosition, d.leftContent)
             /\ d.type = "addition"
                  => AtItsPlace(result.rightContent, d.rightPosition, d.rightContent)
             /\ (d.leftContent = <<>>) # (d.rightContent = <<>>)
    /\ (result.leftContent = <<>> /\ result.rightContent = <<>>)
         => basicDifferences = <<>>

\* The basic engine compared the two texts of the line-3 scenario: the
\* deletion and the addition are on line 2 at offset 4.
C29_Witness ==
  /\ pc = "generated"
  /\ Len(basicDifferences) = 2
  /\ basicDifferences[1].type = "deletion"
  /\ basicDifferences[1].leftPosition = [line |-> 2, column |-> 0, offset |-> 4]
  /\ basicDifferences[2].type = "addition"
  /\ basicDifferences[2].rightPosition = [line |-> 2, column |-> 0, offset |-> 4]

\* C30: in every parsed document the line lookup of the position index
\* holds one entry per line of the document, so that it has lineCount
\* entries and returns every line of every page for that line, and the page
\* lookup holds one entry per page.
C30_LookupsComplete ==
  \A doc \in ParsedDocuments :
    LET lineIndex == doc.positionIndex.lineIndex
        pageIndex == doc.positionIndex.pageIndex
    IN  /\ Cardinality(DOMAIN lineIndex) = doc.lineCount
        /\ \A p \in 1..Len(doc.pages) :
             \A l \in 1..Len(doc.pages[p].lines) :
               LET line == doc.pages[p].lines[l]
               IN  /\ line.lineNumber \in DOMAIN lineIndex
                   /\ lineIndex[line.lineNumber] = line
        /\ Cardinality(DOMAIN pageIndex) = doc.pageCount
        /\ \A p \in 1..Len(doc.pages) :
             /\ doc.pages[p].pageNumber \in DOMAIN pageIndex
             /\ pageIndex[doc.pages[p].pageNumber] = doc.pages[p]
====
